---- MODULE Spec2Model ----
(***************************************************************************)
(* gitcom.dev: the request handlers (apps/server/app.ts, the standalone    *)
(* Bun server), the GitHub client (lib/github.ts) and the markdown         *)
(* renderers, as one state machine handling one inbound request.           *)
(*                                                                         *)
(* Strings that the code parses are sequences of characters. A character   *)
(* is written as itself when it is printable ASCII, as the escape "\t",    *)
(* "\n", "\r" or "\f", and otherwise by its code point, as in "U+00A0".    *)
(* A rendered document is its header fields and the sequence of its        *)
(* sections ("items"), in the order the code appends them.                 *)
(***************************************************************************)
EXTENDS Integers, Sequences, FiniteSets, TLC

\* ------------------------------------------------------------------ bounds
MaxStrLen == 2
MaxComments == 3
MaxReviews == 2
MaxPages == 2

\* ----------------------------------------------------------------- strings
\* A JSON field that holds a number, holds null, or is missing (undefined):
\* in_reply_to_id is missing on a comment that is no reply, and
\* pull_request_review_id is null on a comment that belongs to no review.
Num(n) == [t |-> "number", v |-> n]

Null == [t |-> "null", v |-> 0]

Undef == [t |-> "undefined", v |-> 0]

\* !x : null, undefined and the number 0 are falsy.
Falsy(x) == x.t # "number" \/ x.v = 0

\* x === n, and the key comparison of Map.get(n), for a number n.
StrictEq(x, n) == x = Num(n)

Digits == {"0", "1", "2", "3", "4", "5", "6", "7", "8", "9"}

DigitVal(c) ==
  CASE c = "0" -> 0 [] c = "1" -> 1 [] c = "2" -> 2 [] c = "3" -> 3
    [] c = "4" -> 4 [] c = "5" -> 5 [] c = "6" -> 6 [] c = "7" -> 7
    [] c = "8" -> 8 [] c = "9" -> 9

\* The number of leading decimal digits of s.
DigitPrefixLen(s) ==
  LET ok == {n \in 0..Len(s) : \A j \in 1..n : s[j] \in Digits}
  IN  CHOOSE n \in ok : \A m \in ok : m <= n

\* The value of the first n characters of s, all digits.
DecimalValue(s, n) ==
  LET V[i \in 0..n] == IF i = 0 THEN 0 ELSE V[i - 1] * 10 + DigitVal(s[i])
  IN  V[n]

\* The white space parseInt skips (StrWhiteSpaceChar): tab, vertical tab,
\* form feed, the space and the other space separators, the no-break spaces,
\* and the line terminators. A route parameter is decoded before it is
\* parsed, so a path segment can hold any of them.
WhiteSpace ==
  {"\t", "U+000B", "\f", " ", "U+00A0", "U+FEFF",
   "U+1680", "U+2000", "U+2001", "U+2002", "U+2003", "U+2004", "U+2005", "U+2006",
   "U+2007", "U+2008", "U+2009", "U+200A", "U+202F", "U+205F", "U+3000",
   "\n", "\r", "U+2028", "U+2029"}

\* The number of leading white-space characters of s.
WhiteSpacePrefixLen(s) ==
  LET ok == {n \in 0..Len(s) : \A j \in 1..n : s[j] \in WhiteSpace}
  IN  CHOOSE n \in ok : \A m \in ok : m <= n

\* parseInt(s, 10): leading white space is skipped, then an optional sign,
\* then the longest digit prefix; NaN when there is no digit. Whatever follows
\* the digits is ignored.
ParseInt(s) ==
  LET trimmed == SubSeq(s, WhiteSpacePrefixLen(s) + 1, Len(s))
      signed == Len(trimmed) > 0 /\ trimmed[1] \in {"-", "+"}
      neg == Len(trimmed) > 0 /\ trimmed[1] = "-"
      body == IF signed THEN Tail(trimmed) ELSE trimmed
      n == DigitPrefixLen(body)
      v == DecimalValue(body, n)
  IN  IF n = 0 THEN [nan |-> TRUE, val |-> 0]
      ELSE [nan |-> FALSE, val |-> IF neg THEN 0 - v ELSE v]

\* The regular expression \d+ anchored on a whole path segment.
AllDigits(s) == Len(s) > 0 /\ \A j \in 1..Len(s) : s[j] \in Digits

\* ------------------------------------------------------------ token counter
\* The texts on which the token encoder throws.
VARIABLE encoderThrows

\* The length of the encoder's output for a text.
Encode(text) ==
  CASE text = "" -> 0
    [] text \in {"A", "R", "I"} -> 1
    [] text \in {"B", "C"} -> 2
    [] OTHER -> 3

\* A counter without the try/catch, giving a count whatever happens.
CountTokensUnguarded(text) == Encode(text)

\* countTokens: the encoder's count, or 0 when the encoder throws.
CountTokens(text) == IF text \in encoderThrows THEN 0 ELSE Encode(text)

\* The sum of countTokens over the bodies of a list, left to right.
SumTokens(list) ==
  LET S[i \in 0..Len(list)] == IF i = 0 THEN 0 ELSE S[i - 1] + CountTokens(list[i].body)
  IN  S[Len(list)]

\* totalTokens: the bodies of the reviews (or of the issue) that have one,
\* then the bodies of all comments.
TotalTokens(withBody, comments) ==
  SumTokens(SelectSeq(withBody, LAMBDA x : x.body # "")) + SumTokens(comments)

\* --------------------------------------------------------------- documents
\* One appended section of a document: a comment, a reply, a review, a
\* heading or a rule. label is the number printed in the heading; body is the
\* text printed under it.
Item(kind, id, label, depth, body) ==
  [kind |-> kind, id |-> id, label |-> label, depth |-> depth, body |-> body]

Hr == Item("hr", 0, 0, 0, "")

Sentinel == Item("sentinel", 0, 0, 0, "")

Doc(heading, reviewsLine, totalReviews, totalComments, totalTokens, items) ==
  [heading |-> heading, reviewsLine |-> reviewsLine,
   totalReviews |-> totalReviews, totalComments |-> totalComments,
   totalTokens |-> totalTokens, items |-> items]

NoDoc == Doc("none", FALSE, 0, 0, 0, <<>>)

\* What an out-of-bounds array read yields: the value undefined, which is no
\* comment object; reading its body throws a TypeError.
Undefined == [undefined |-> TRUE]

HasUndefined(comments) == \E i \in 1..Len(comments) : comments[i] = Undefined

\* A renderer that threw instead of returning a document.
Thrown == Doc("thrown", FALSE, 0, 0, 0, <<>>)

RECURSIVE Flatten(_)
Flatten(ss) == IF ss = <<>> THEN <<>> ELSE Head(ss) \o Flatten(Tail(ss))

\* Sections headed by the comment's id, as in the threaded view.
FlatSectionsLabelledById(comments) ==
  Flatten([i \in 1..Len(comments) |->
    <<Item("comment", comments[i].id, comments[i].id, 0, comments[i].body)>>
      \o (IF i < Len(comments) THEN <<Hr>> ELSE <<>>)])

\* One "## Comment {index+1}" section per comment, a rule between sections.
FlatSections(comments) ==
  Flatten([i \in 1..Len(comments) |->
    <<Item("comment", comments[i].id, i, 0, comments[i].body)>>
      \o (IF i < Len(comments) THEN <<Hr>> ELSE <<>>)])

FormatCommentsAsMarkdown(comments) ==
  IF HasUndefined(comments) THEN Thrown
  ELSE Doc("pr", FALSE, 0, Len(comments), TotalTokens(<<>>, comments),
           IF Len(comments) = 0 THEN <<Sentinel>> ELSE FlatSections(comments))

\* rootComments: the comments with a falsy in_reply_to_id, in input order.
RootComments(comments) ==
  SelectSeq(comments, LAMBDA c : Falsy(c.in_reply_to_id))

\* Replies found only after their parent in the input.
GetRepliesAfterParent(comments, commentId) ==
  LET at == {i \in 1..Len(comments) : comments[i].id = commentId}
      idx == [i \in 1..Len(comments) |-> i]
      later == SelectSeq(idx, LAMBDA i : /\ StrictEq(comments[i].in_reply_to_id, commentId)
                                         /\ \E j \in at : j < i)
  IN  [n \in 1..Len(later) |-> comments[later[n]]]

\* getReplies: the comments whose in_reply_to_id === commentId, in input order.
GetReplies(comments, commentId) ==
  SelectSeq(comments, LAMBDA c : StrictEq(c.in_reply_to_id, commentId))

\* A section that takes its number from the place in the list and indents
\* every reply by one level, however deep it is.
ThreadItemOrdinalOneLevel(comment, depth) ==
  Item(IF depth = 0 THEN "comment" ELSE "reply", comment.id,
       IF depth = 0 THEN 1 ELSE 0, IF depth = 0 THEN 0 ELSE 1, comment.body)

\* The section of one comment at a depth: "## Comment {id}" at depth 0, the
\* reply marker below; every line indented by depth levels.
ThreadItem(comment, depth) ==
  Item(IF depth = 0 THEN "comment" ELSE "reply", comment.id,
       IF depth = 0 THEN comment.id ELSE 0, depth, comment.body)

\* formatCommentWithReplies: the comment, then each reply's subtree one level
\* deeper. A chain longer than the input revisits a comment and never ends:
\* the call stack overflows, which the "overflow" item stands for.
RECURSIVE FormatCommentWithReplies(_, _, _)
FormatCommentWithReplies(comments, comment, depth) ==
  IF depth > Len(comments) THEN <<Item("overflow", 0, 0, depth, "")>>
  ELSE LET replies == GetReplies(comments, comment.id)
       IN  <<ThreadItem(comment, depth)>>
           \o Flatten([j \in 1..Len(replies) |->
                 FormatCommentWithReplies(comments, replies[j], depth + 1)])

\* reviewGroups.get(key): the root comments whose review id is the key: a
\* number for a review's group, null for the standalone group. A root whose
\* review id is missing, or is the id of no review, is in a group that no
\* one asks for.
ReviewGroup(comments, key) ==
  SelectSeq(RootComments(comments), LAMBDA c : c.pull_request_review_id = key)

\* One review's section in the grouped view.
ReviewSection(reviews, comments, i) ==
  LET review == reviews[i]
      reviewComments == ReviewGroup(comments, Num(review.id))
  IN  <<Item("review", review.id, i, 0, "")>>
      \o (IF review.body # "" THEN <<Item("reviewBody", review.id, 0, 0, review.body)>>
          ELSE <<>>)
      \o (IF Len(reviewComments) > 0
          THEN <<Item("codeComments", review.id, Len(reviewComments), 0, "")>>
               \o Flatten([j \in 1..Len(reviewComments) |->
                     FormatCommentWithReplies(comments, reviewComments[j], 0) \o <<Hr>>])
          ELSE <<>>)
      \o <<Hr>>

\* The comments without a review, listed with no heading of their own.
StandaloneSectionUnheaded(comments) ==
  LET orphanedComments == ReviewGroup(comments, Null)
  IN  Flatten([j \in 1..Len(orphanedComments) |->
        FormatCommentWithReplies(comments, orphanedComments[j], 0) \o <<Hr>>])

StandaloneSection(comments) ==
  LET orphanedComments == ReviewGroup(comments, Null)
  IN  IF Len(orphanedComments) > 0
      THEN <<Item("standalone", 0, 0, 0, "")>>
           \o Flatten([j \in 1..Len(orphanedComments) |->
                 FormatCommentWithReplies(comments, orphanedComments[j], 0) \o <<Hr>>])
      ELSE <<>>

\* All the roots first, their direct replies after the last root.
ThreadedSectionsRepliesLast(comments) ==
  LET roots == RootComments(comments)
  IN  [j \in 1..Len(roots) |-> Item("comment", roots[j].id, roots[j].id, 0, roots[j].body)]
      \o Flatten([j \in 1..Len(roots) |->
            [n \in 1..Len(GetReplies(comments, roots[j].id)) |->
               Item("reply", GetReplies(comments, roots[j].id)[n].id, 0, 1,
                    GetReplies(comments, roots[j].id)[n].body)]])

\* Threading without review groups: the root trees, a rule between them.
ThreadedSections(comments) ==
  LET roots == RootComments(comments)
  IN  Flatten([j \in 1..Len(roots) |->
        FormatCommentWithReplies(comments, roots[j], 0)
          \o (IF j < Len(roots) THEN <<Hr>> ELSE <<>>)])

\* Review sections only for the reviews that have a body.
FlatReviewSectionsWithBodyOnly(reviews, comments) ==
  Flatten([i \in 1..Len(reviews) |->
    IF reviews[i].body = "" THEN <<>>
    ELSE <<Item("review", reviews[i].id, i, 0, ""),
           Item("reviewBody", reviews[i].id, 0, 0, reviews[i].body), Hr>>])

\* The flat view's review sections.
FlatReviewSections(reviews, comments) ==
  Flatten([i \in 1..Len(reviews) |->
    <<Item("review", reviews[i].id, i, 0, "")>>
      \o (IF reviews[i].body # "" THEN <<Item("reviewBody", reviews[i].id, 0, 0, reviews[i].body)>>
          ELSE <<>>)
      \o (IF i < Len(reviews) \/ Len(comments) > 0 THEN <<Hr>> ELSE <<>>)])

FormatCommentsWithReviews(reviews, comments, options) ==
  IF HasUndefined(comments) THEN Thrown ELSE
  Doc("pr", TRUE, Len(reviews), Len(comments), TotalTokens(reviews, comments),
      IF Len(reviews) = 0 /\ Len(comments) = 0 THEN <<Sentinel>>
      ELSE IF options.showThreading
           THEN IF options.includeReviews /\ Len(reviews) > 0
                THEN Flatten([i \in 1..Len(reviews) |-> ReviewSection(reviews, comments, i)])
                     \o StandaloneSection(comments)
                ELSE ThreadedSections(comments)
           ELSE (IF options.includeReviews /\ Len(reviews) > 0
                 THEN FlatReviewSections(reviews, comments) ELSE <<>>)
                \o FlatSections(comments))

\* The issue view: the description when an issue is given, then the comments.
FormatIssueAsMarkdown(issue, comments) ==
  IF HasUndefined(comments) THEN Thrown ELSE
  Doc("issue", FALSE, 0, Len(comments),
      TotalTokens(IF issue.present THEN <<issue>> ELSE <<>>, comments),
      (IF issue.present
       THEN <<Item("issue", issue.number, 0, 0, issue.body), Hr>> ELSE <<>>)
      \o (IF Len(comments) = 0 /\ ~issue.present THEN <<Sentinel>>
          ELSE FlatSections(comments)))

\* The renderer threw: a TypeError, or a RangeError from the call stack.
Threw(doc) ==
  doc.heading = "thrown" \/ \E i \in 1..Len(doc.items) : doc.items[i].kind = "overflow"

\* -------------------------------------------------------------- input data
Comment(id, inReplyTo, reviewId, body) ==
  [id |-> id, in_reply_to_id |-> inReplyTo, pull_request_review_id |-> reviewId,
   body |-> body]

Review(id, body) == [id |-> id, body |-> body]

\* The comments the upstream may hold: a standalone root, a reply to it that
\* carries a review id of its own, a root of review 1, a reply to the reply, a
\* reply whose parent is in no list, a comment that repeats id 1 and replies to
\* it, and a root of review 2.
CommentPool ==
  { Comment(1, Undef, Null, "A"), Comment(2, Num(1), Num(1), "B"),
    Comment(3, Undef, Num(1), "C"),      Comment(4, Num(2), Null, "D"),
    Comment(5, Num(9), Null, "E"),      Comment(1, Num(1), Null, "F"),
    Comment(7, Undef, Num(2), "G") }

ReviewPool == { Review(1, "R"), Review(2, "") }

SeqsUpTo(S, n) == UNION { [1..k -> S] : k \in 0..n }

NoIssue == [present |-> FALSE, number |-> 0, body |-> ""]

IssuePool == { [present |-> TRUE, number |-> 7, body |-> "I"],
               [present |-> TRUE, number |-> 7, body |-> ""] }

\* Full pages, as the upstream cuts a long list.
PagePool == { <<Comment(1, Undef, Null, "A"), Comment(2, Num(1), Num(1), "B")>>,
              <<Comment(3, Undef, Num(1), "C"), Comment(7, Undef, Num(2), "G")>> }

PagedComments == { <<<<>>>> } \cup (SeqsUpTo(PagePool, MaxPages) \ { <<>> })

PagedReviews == { <<<<>>>>, <<<<Review(1, "R")>>>>,
                  <<<<Review(1, "R")>>, <<Review(2, "")>>>> }

\* The segments of the request path, decoded, and the token. An empty segment
\* stands for a path that has nothing where the route expects a parameter.
IdChars == {"7", "a", " "}
OrdChars == {"0", "1", "2", "-", "a", "U+00A0"}
Names == { <<>>, <<"o">> }
Tokens == { <<>>, <<"t">> }

\* A failed upstream answer: its HTTP status.
FailStatuses == {404, 503}

Endpoints == {"reviews", "pullComments", "issueComments", "issue"}

\* -------------------------------------------------------------------- state
VARIABLES
  req,        \* the inbound request: route, path segments, token, options
  upstream,   \* what the upstream API holds: pages of reviews and comments, the issue
  pc,         \* where the handler stands: received, an await, or done
  net,        \* each upstream GET of this request: idle, pending, ok or failed
  netError,   \* the status of each failed GET (0: none)
  calls,      \* the upstream GETs issued, in order
  settled,    \* the upstream GETs answered, in the order of their answers
  reviews,    \* what the reviews fetch returned
  comments,   \* what the comments fetch returned
  issue,      \* what the issue fetch returned
  responses,  \* the responses sent, in order
  sessions    \* two requests in progress at once, each with all of the above

vars == <<sessions, req, upstream, encoderThrows, pc, net, netError, calls, settled, reviews,
          comments, issue, responses>>

\* ---------------------------------------------------------------- responses
NoError == [endpoint |-> "none", status |-> 0]

Resp(status, kind, k, m, err, doc) ==
  [status |-> status, kind |-> kind, commentNumber |-> k, total |-> m,
   error |-> err, doc |-> doc]

Concat(pages) == Flatten(pages)

\* The whole list the upstream holds behind a list endpoint.
UpstreamList(e) ==
  IF e = "reviews" THEN Concat(upstream.reviews) ELSE Concat(upstream.comments)

\* ----------------------------------------------------------- GitHub client
\* fetchPullRequestComments, fetchPullRequestReviews, fetchIssueComments: one
\* GET of the list URL; the decoded body of that one response is the result.
FetchList(pages) == pages[1]

\* A join that settles as soon as one fetch has succeeded.
PromiseAny(states) ==
  IF \E i \in 1..Len(states) : states[i] = "failed" THEN "rejected"
  ELSE IF \E i \in 1..Len(states) : states[i] = "ok" THEN "fulfilled"
  ELSE "pending"

\* A join that waits for both fetches and overlooks a failure.
PromiseAllSettled(states) ==
  IF \A i \in 1..Len(states) : states[i] \in {"ok", "failed"} THEN "fulfilled"
  ELSE "pending"

\* A join that reports a failure only when every fetch has been answered.
PromiseAllAnswered(states) ==
  IF \E i \in 1..Len(states) : states[i] = "pending" THEN "pending"
  ELSE IF \E i \in 1..Len(states) : states[i] = "failed" THEN "rejected"
  ELSE "fulfilled"

\* Promise.all over the two fetches of getPullRequestReviewsAndComments.
PromiseAll(states) ==
  IF \E i \in 1..Len(states) : states[i] = "failed" THEN "rejected"
  ELSE IF \A i \in 1..Len(states) : states[i] = "ok" THEN "fulfilled"
  ELSE "pending"

\* ----------------------------------------------------------------- handlers
NoResp == Resp(0, "none", 0, 0, NoError, NoDoc)

Failed(e, status) == Resp(500, "failed", 0, 0, [endpoint |-> e, status |-> status], NoDoc)

\* The same checks with the token looked at first.
ValidatePRTokenFirst(r) ==
  IF r.token = <<>>
    THEN Resp(401, "missingToken", 0, 0, NoError, NoDoc)
  ELSE IF r.owner = <<>> \/ r.repo = <<>> \/ r.id = <<>>
    THEN Resp(400, "missingParams", 0, 0, NoError, NoDoc)
  ELSE IF ParseInt(r.id).nan
    THEN Resp(400, "invalidId", 0, 0, NoError, NoDoc)
  ELSE IF r.commentNumber # <<>> /\ ParseInt(r.commentNumber).nan
    THEN Resp(400, "invalidCommentNumber", 0, 0, NoError, NoDoc)
  ELSE NoResp

\* The paths without parameters: /health and / of the application, a path
\* that has the shape of no route, and /health of the standalone server.
PathlessRoutes == {"health", "root", "other", "bunHealth"}

\* The handler the request is dispatched to. A parameter of an Express route
\* matches one or more characters, so a pull or issues path with an empty
\* owner, repo or id matches no route and falls through to the 404 handler.
Route(r) ==
  IF r.route \in {"pull", "issues"} /\ (r.owner = <<>> \/ r.repo = <<>> \/ r.id = <<>>)
    THEN "other"
  ELSE r.route

HealthOk == Resp(200, "health", 0, 0, NoError, NoDoc)

Redirect == Resp(302, "redirect", 0, 0, NoError, NoDoc)

RouteNotFound == Resp(404, "routeNotFound", 0, 0, NoError, NoDoc)

\* The checks of handlePRComments before the try block.
ValidatePR(r) ==
  IF r.owner = <<>> \/ r.repo = <<>> \/ r.id = <<>>
    THEN Resp(400, "missingParams", 0, 0, NoError, NoDoc)
  ELSE IF ParseInt(r.id).nan
    THEN Resp(400, "invalidId", 0, 0, NoError, NoDoc)
  ELSE IF r.commentNumber # <<>> /\ ParseInt(r.commentNumber).nan
    THEN Resp(400, "invalidCommentNumber", 0, 0, NoError, NoDoc)
  ELSE IF r.token = <<>>
    THEN Resp(401, "missingToken", 0, 0, NoError, NoDoc)
  ELSE NoResp

\* The checks of handleIssueComments with the token check left out.
ValidateIssueTokenUnchecked(r) ==
  IF r.owner = <<>> \/ r.repo = <<>> \/ r.id = <<>>
    THEN Resp(400, "missingParams", 0, 0, NoError, NoDoc)
  ELSE IF ParseInt(r.id).nan
    THEN Resp(400, "invalidId", 0, 0, NoError, NoDoc)
  ELSE IF r.commentNumber # <<>> /\ ParseInt(r.commentNumber).nan
    THEN Resp(400, "invalidCommentNumber", 0, 0, NoError, NoDoc)
  ELSE NoResp

\* The checks of handleIssueComments before the try block.
ValidateIssue(r) ==
  IF r.owner = <<>> \/ r.repo = <<>> \/ r.id = <<>>
    THEN Resp(400, "missingParams", 0, 0, NoError, NoDoc)
  ELSE IF ParseInt(r.id).nan
    THEN Resp(400, "invalidId", 0, 0, NoError, NoDoc)
  ELSE IF r.commentNumber # <<>> /\ ParseInt(r.commentNumber).nan
    THEN Resp(400, "invalidCommentNumber", 0, 0, NoError, NoDoc)
  ELSE IF r.token = <<>>
    THEN Resp(401, "missingToken", 0, 0, NoError, NoDoc)
  ELSE NoResp

\* The route match and token check of the standalone server's fetch handler.
ValidateBun(r) ==
  IF ~(r.owner # <<>> /\ r.repo # <<>> /\ AllDigits(r.id)
       /\ (r.commentNumber = <<>> \/ AllDigits(r.commentNumber)))
    THEN Resp(404, "routeNotFound", 0, 0, NoError, NoDoc)
  ELSE IF r.token = <<>>
    THEN Resp(401, "missingToken", 0, 0, NoError, NoDoc)
  ELSE NoResp

\* commentNum !== null: a comment number was given (a non-empty segment).
HasCommentNum(r) == r.commentNumber # <<>>

CommentNum(r) == ParseInt(r.commentNumber).val

\* A range check that lets ordinal 0 through.
OutOfRangeFromZero(k, m) == k < 0 \/ k > m

OutOfRange(k, m) == k < 1 \/ k > m

\* The selection without the "- 1" of a zero-indexed array.
SelectCommentOffByOne(cs, k) ==
  IF k + 1 \in 1..Len(cs) THEN <<cs[k + 1]>> ELSE <<Undefined>>

\* [comments[commentNum - 1]] of a zero-indexed array.
SelectComment(cs, k) == IF k \in 1..Len(cs) THEN <<cs[k]>> ELSE <<Undefined>>

\* The advanced mode taken only when both options are set.
FetchesReviewsBothFlags(options) == options.includeReviews /\ options.showThreading

\* options.includeReviews || options.showThreading
FetchesReviews(options) == options.includeReviews \/ options.showThreading

\* The same with resolved=true acted upon: only comments in a review are kept.
PRThreadedContinueResolved(r, revs, cs) ==
  LET kept == IF r.resolvedFilter = "true"
                THEN SelectSeq(cs, LAMBDA c : c.pull_request_review_id.t = "number") ELSE cs
  IN  IF HasCommentNum(r) /\ OutOfRange(CommentNum(r), Len(kept))
        THEN Resp(404, "outOfRange", CommentNum(r), Len(kept), NoError, NoDoc)
      ELSE LET filtered == IF HasCommentNum(r) THEN SelectComment(kept, CommentNum(r)) ELSE kept
               doc == FormatCommentsWithReviews(revs, filtered,
                        [includeReviews |-> r.includeReviews, showThreading |-> r.showThreading,
                         resolvedFilter |-> r.resolvedFilter])
           IN  IF Threw(doc) THEN Failed("render", 0)
               ELSE Resp(200, "ok", CommentNum(r), Len(kept), NoError, doc)

\* handlePRComments after both fetches: range check, filter, threaded render.
PRThreadedContinue(r, revs, cs) ==
  IF HasCommentNum(r) /\ OutOfRange(CommentNum(r), Len(cs))
    THEN Resp(404, "outOfRange", CommentNum(r), Len(cs), NoError, NoDoc)
  ELSE LET filtered == IF HasCommentNum(r) THEN SelectComment(cs, CommentNum(r)) ELSE cs
           doc == FormatCommentsWithReviews(revs, filtered,
                    [includeReviews |-> r.includeReviews, showThreading |-> r.showThreading,
                     resolvedFilter |-> r.resolvedFilter])
       IN  IF Threw(doc) THEN Failed("render", 0)
           ELSE Resp(200, "ok", CommentNum(r), Len(cs), NoError, doc)

\* handlePRComments, simple mode, after the comments fetch.
PRFlatContinue(r, cs) ==
  IF HasCommentNum(r) /\ OutOfRange(CommentNum(r), Len(cs))
    THEN Resp(404, "outOfRange", CommentNum(r), Len(cs), NoError, NoDoc)
  ELSE LET filtered == IF HasCommentNum(r) THEN SelectComment(cs, CommentNum(r)) ELSE cs
           doc == FormatCommentsAsMarkdown(filtered)
       IN  IF Threw(doc) THEN Failed("render", 0)
           ELSE Resp(200, "ok", CommentNum(r), Len(cs), NoError, doc)

\* The standalone server's handler after the comments fetch.
BunContinue(r, cs) ==
  IF HasCommentNum(r) /\ OutOfRange(CommentNum(r), Len(cs))
    THEN Resp(404, "outOfRange", CommentNum(r), Len(cs), NoError, NoDoc)
  ELSE LET filtered == IF HasCommentNum(r) THEN SelectComment(cs, CommentNum(r)) ELSE cs
           doc == FormatCommentsAsMarkdown(filtered)
       IN  IF Threw(doc) THEN Failed("render", 0)
           ELSE Resp(200, "ok", CommentNum(r), Len(cs), NoError, doc)

\* The single-comment view rendered with an issue description all the same.
IssueCommentContinueWithIssue(r, cs) ==
  IF OutOfRange(CommentNum(r), Len(cs))
    THEN Resp(404, "outOfRange", CommentNum(r), Len(cs), NoError, NoDoc)
  ELSE LET doc == FormatIssueAsMarkdown([present |-> TRUE, number |-> 7, body |-> "I"],
                                        SelectComment(cs, CommentNum(r)))
       IN  IF Threw(doc) THEN Failed("render", 0)
           ELSE Resp(200, "ok", CommentNum(r), Len(cs), NoError, doc)

\* handleIssueComments after the comments fetch, when a comment number is given.
IssueCommentContinue(r, cs) ==
  IF OutOfRange(CommentNum(r), Len(cs))
    THEN Resp(404, "outOfRange", CommentNum(r), Len(cs), NoError, NoDoc)
  ELSE LET doc == FormatIssueAsMarkdown(NoIssue, SelectComment(cs, CommentNum(r)))
       IN  IF Threw(doc) THEN Failed("render", 0)
           ELSE Resp(200, "ok", CommentNum(r), Len(cs), NoError, doc)

\* handleIssueComments after the issue fetch.
IssueContinue(r, iss, cs) ==
  LET doc == FormatIssueAsMarkdown(iss, cs)
  IN  IF Threw(doc) THEN Failed("render", 0)
      ELSE Resp(200, "ok", 0, Len(cs), NoError, doc)

\* --------------------------------------------------------------------- Init
IdStrings == SeqsUpTo(IdChars, MaxStrLen)
OrdStrings == SeqsUpTo(OrdChars, MaxStrLen)

\* The query string: each parameter absent, or present with its value.
QueryValues == {"absent", "true", "false"}

Query(includeReviews, showThreading, resolved) ==
  [include_reviews |-> includeReviews, show_threading |-> showThreading,
   resolved |-> resolved]

NoQuery == Query("absent", "absent", "absent")

\* The FormattingOptions a pull route parses from the query string.
Options(query) ==
  [includeReviews |-> query.include_reviews = "true",
   showThreading |-> query.show_threading = "true",
   resolvedFilter |-> query.resolved]

\* The routes, the pull route with each flag requested or left out.
RouteOptions ==
  { [route |-> "pull", query |-> Query(a, b, "absent")] : a, b \in {"absent", "true"} }
  \cup { [route |-> x, query |-> NoQuery] : x \in {"issues", "bun"} }

PathlessRouteOptions == { [route |-> x, query |-> NoQuery] : x \in PathlessRoutes }

\* The routes, the pull route with any query string.
AnyQueryRouteOptions ==
  { [route |-> "pull", query |-> Query(a, b, c)] : a, b, c \in QueryValues }
  \cup { [route |-> x, query |-> NoQuery] : x \in {"issues", "bun"} }
  \cup PathlessRouteOptions

Request(ro, owner, repo, id, commentNumber, token) ==
  [route |-> ro.route, query |-> ro.query,
   includeReviews |-> Options(ro.query).includeReviews,
   showThreading |-> Options(ro.query).showThreading,
   resolvedFilter |-> Options(ro.query).resolvedFilter,
   owner |-> owner, repo |-> repo,
   id |-> id, commentNumber |-> commentNumber, token |-> token]

Upstream(revPages, cPages, iss) ==
  [reviews |-> revPages, comments |-> cPages, issue |-> iss]

DefaultIssue == [present |-> TRUE, number |-> 7, body |-> "I"]

\* The encoder works, throws on some texts, or throws whatever it is given.
EncoderFailures == { {}, {"A", "R"}, {"", "A", "B", "C", "D", "E", "F", "G", "R", "I"} }

\* Any path segments and token, against one small upstream.
InitAnyRequest ==
  /\ \E ro \in AnyQueryRouteOptions, owner \in Names, repo \in Names, id \in IdStrings,
        cn \in OrdStrings, token \in Tokens :
       /\ ro.route \in PathlessRoutes
            => owner = <<>> /\ repo = <<>> /\ id = <<>> /\ cn = <<>>
       /\ req = Request(ro, owner, repo, id, cn, token)
  /\ encoderThrows = {}
  /\ upstream = Upstream(<<<<Review(1, "R")>>>>,
                         <<<<Comment(1, Undef, Null, "A"), Comment(2, Num(1), Num(1), "B")>>>>,
                         DefaultIssue)

\* A well-formed request against lists the upstream serves in pages.
InitPaged ==
  /\ \E ro \in RouteOptions, cn \in {<<>>, <<"1">>, <<"2">>} :
       req = Request(ro, <<"o">>, <<"r">>, <<"7">>, cn, <<"t">>)
  /\ \E rp \in PagedReviews, cp \in PagedComments :
       /\ (~FetchesReviews(req) => rp = <<<<>>>>)
       /\ upstream = Upstream(rp, cp, DefaultIssue)
  /\ encoderThrows = {}

\* A well-formed request against any one-page lists of reviews and comments.
InitAnyLists ==
  /\ \E ro \in RouteOptions, cn \in {<<>>, <<"1">>, <<"2">>} :
       req = Request(ro, <<"o">>, <<"r">>, <<"7">>, cn, <<"t">>)
  /\ \E rl \in SeqsUpTo(ReviewPool, MaxReviews), cl \in SeqsUpTo(CommentPool, MaxComments),
        iss \in IssuePool :
       /\ (~FetchesReviews(req) => rl = <<>>)
       /\ (Route(req) # "issues" => iss = DefaultIssue)
       /\ upstream = Upstream(<<rl>>, <<cl>>, iss)
  /\ encoderThrows \in EncoderFailures

\* The handler has not started: nothing issued, fetched or sent.
InitHandler ==
  /\ pc = "received"
  /\ net = [e \in Endpoints |-> "idle"]
  /\ netError = [e \in Endpoints |-> 0]
  /\ calls = <<>>
  /\ settled = <<>>
  /\ reviews = <<>>
  /\ comments = <<>>
  /\ issue = NoIssue
  /\ responses = <<>>

\* One request in progress, no other beside it.
NoSessions == <<>>

Init ==
  /\ (InitAnyRequest \/ InitPaged \/ InitAnyLists)
  /\ InitHandler
  /\ sessions = NoSessions

\* Requests of every route that take every path of the handlers: path
\* segments present or missing, numeric or not, an ordinal in or out of range,
\* a token or none; comment lists that are empty, well-formed, or repeat an id.
InitEveryPath ==
  /\ \E ro \in RouteOptions \cup PathlessRouteOptions, owner \in Names, repo \in Names,
        id \in {<<>>, <<"7">>, <<"a">>},
        cn \in {<<>>, <<"1">>, <<"3">>, <<"a">>}, token \in Tokens :
       /\ ro.route \in PathlessRoutes
            => owner = <<>> /\ repo = <<>> /\ id = <<>> /\ cn = <<>>
       /\ req = Request(ro, owner, repo, id, cn, token)
  /\ \E cl \in { <<>>,
                  <<Comment(1, Undef, Null, "A"), Comment(2, Num(1), Num(1), "B")>>,
                  <<Comment(1, Undef, Null, "A"), Comment(1, Num(1), Null, "F")>> } :
       upstream = Upstream(<<<<Review(1, "R")>>>>, <<cl>>, DefaultIssue)
  /\ encoderThrows = {}

\* ------------------------------------------------------------------ actions
\* A response that goes out twice.
SendTwice(resp) ==
  /\ responses' = responses \o <<resp, resp>>
  /\ pc' = "done"

\* res.status(...).send(...), after which the handler returns.
Send(resp) ==
  /\ responses' = Append(responses, resp)
  /\ pc' = "done"

Issue(es) ==
  /\ net' = [e \in Endpoints |-> IF \E i \in 1..Len(es) : es[i] = e THEN "pending" ELSE net[e]]
  /\ calls' = calls \o es

\* handlePRComments up to its first await.
HandlePRComments ==
  /\ pc = "received" /\ Route(req) = "pull"
  /\ IF ValidatePR(req).status # 0
       THEN Send(ValidatePR(req)) /\ UNCHANGED <<net, calls>>
     ELSE IF FetchesReviews(req)
       THEN Issue(<<"reviews", "pullComments">>) /\ pc' = "awaitBoth" /\ UNCHANGED responses
     ELSE Issue(<<"pullComments">>) /\ pc' = "awaitComments" /\ UNCHANGED responses
  /\ UNCHANGED <<sessions, req, upstream, encoderThrows, netError, settled, reviews, comments, issue>>

\* The issue and its comments requested side by side.
HandleIssueCommentsConcurrent ==
  /\ pc = "received" /\ Route(req) = "issues"
  /\ IF ValidateIssue(req).status # 0
       THEN Send(ValidateIssue(req)) /\ UNCHANGED <<net, calls>>
     ELSE Issue(<<"issueComments", "issue">>) /\ pc' = "awaitIssueComments"
          /\ UNCHANGED responses
  /\ UNCHANGED <<sessions, req, upstream, encoderThrows, netError, settled, reviews, comments, issue>>

\* handleIssueComments up to its first await.
HandleIssueComments ==
  /\ pc = "received" /\ Route(req) = "issues"
  /\ IF ValidateIssue(req).status # 0
       THEN Send(ValidateIssue(req)) /\ UNCHANGED <<net, calls>>
     ELSE Issue(<<"issueComments">>) /\ pc' = "awaitIssueComments" /\ UNCHANGED responses
  /\ UNCHANGED <<sessions, req, upstream, encoderThrows, netError, settled, reviews, comments, issue>>

\* app.get("/health"): 200 OK.
HealthCheck ==
  /\ pc = "received" /\ Route(req) = "health"
  /\ Send(HealthOk)
  /\ UNCHANGED <<sessions, req, upstream, encoderThrows, net, netError, calls, settled,
                 reviews, comments, issue>>

\* app.get("/"): a redirect to the repository's page.
RootRedirect ==
  /\ pc = "received" /\ Route(req) = "root"
  /\ Send(Redirect)
  /\ UNCHANGED <<sessions, req, upstream, encoderThrows, net, netError, calls, settled,
                 reviews, comments, issue>>

\* The 404 handler that takes every request no route has matched.
NotFoundHandler ==
  /\ pc = "received" /\ Route(req) = "other"
  /\ Send(RouteNotFound)
  /\ UNCHANGED <<sessions, req, upstream, encoderThrows, net, netError, calls, settled,
                 reviews, comments, issue>>

\* The standalone server's fetch handler up to its first await: the health
\* path, then the route match and the token check.
BunFetch ==
  /\ pc = "received" /\ Route(req) \in {"bun", "bunHealth"}
  /\ IF Route(req) = "bunHealth"
       THEN Send(HealthOk) /\ UNCHANGED <<net, calls>>
     ELSE IF ValidateBun(req).status # 0
       THEN Send(ValidateBun(req)) /\ UNCHANGED <<net, calls>>
     ELSE Issue(<<"pullComments">>) /\ pc' = "awaitComments" /\ UNCHANGED responses
  /\ UNCHANGED <<sessions, req, upstream, encoderThrows, netError, settled, reviews, comments, issue>>

\* A failed GET that is sent again instead of being reported as failed.
SettledRetried(e, outcome) ==
  /\ net' = [net EXCEPT ![e] = IF outcome = 0 THEN "ok" ELSE "pending"]
  /\ netError' = [netError EXCEPT ![e] = outcome]
  /\ settled' = Append(settled, e)

\* A GET is answered: with success (outcome 0) or with a failure status.
Settled(e, outcome) ==
  /\ net' = [net EXCEPT ![e] = IF outcome = 0 THEN "ok" ELSE "failed"]
  /\ netError' = [netError EXCEPT ![e] = outcome]
  /\ settled' = Append(settled, e)

\* The reviews GET answers (outcome 0: success), and the handler runs on from
\* its await if the join has settled.
ReviewsSettle ==
  /\ net["reviews"] = "pending"
  /\ \E outcome \in {0} \cup FailStatuses :
       LET revs == IF outcome = 0 THEN FetchList(upstream.reviews) ELSE reviews
           join == PromiseAll(<<IF outcome = 0 THEN "ok" ELSE "failed", net["pullComments"]>>)
       IN  /\ Settled("reviews", outcome)
           /\ reviews' = revs
           /\ IF pc = "awaitBoth" /\ join = "rejected"
                THEN Send(Failed("reviews", outcome))
              ELSE IF pc = "awaitBoth" /\ join = "fulfilled"
                THEN Send(PRThreadedContinue(req, revs, comments))
              ELSE UNCHANGED <<pc, responses>>
  /\ UNCHANGED <<sessions, req, upstream, encoderThrows, calls, comments, issue>>

\* The pull-request comments GET answers.
PullCommentsSettle ==
  /\ net["pullComments"] = "pending"
  /\ \E outcome \in {0} \cup FailStatuses :
       LET cs == IF outcome = 0 THEN FetchList(upstream.comments) ELSE comments
           join == PromiseAll(<<net["reviews"], IF outcome = 0 THEN "ok" ELSE "failed">>)
       IN  /\ Settled("pullComments", outcome)
           /\ comments' = cs
           /\ IF pc = "awaitBoth" /\ join = "rejected"
                THEN Send(Failed("pullComments", outcome))
              ELSE IF pc = "awaitBoth" /\ join = "fulfilled"
                THEN Send(PRThreadedContinue(req, reviews, cs))
              ELSE IF pc = "awaitComments" /\ outcome # 0
                THEN Send(Failed("pullComments", outcome))
              ELSE IF pc = "awaitComments" /\ Route(req) = "bun"
                THEN Send(BunContinue(req, cs))
              ELSE IF pc = "awaitComments"
                THEN Send(PRFlatContinue(req, cs))
              ELSE UNCHANGED <<pc, responses>>
  /\ UNCHANGED <<sessions, req, upstream, encoderThrows, calls, reviews, issue>>

\* The issue comments GET answers; without a comment number the handler goes
\* on to fetch the issue.
IssueCommentsSettle ==
  /\ net["issueComments"] = "pending"
  /\ \E outcome \in {0} \cup FailStatuses :
       LET cs == IF outcome = 0 THEN FetchList(upstream.comments) ELSE comments
       IN  /\ comments' = cs
           /\ netError' = [netError EXCEPT !["issueComments"] = outcome]
           /\ settled' = Append(settled, "issueComments")
           /\ IF outcome # 0
                THEN /\ net' = [net EXCEPT !["issueComments"] = "failed"]
                     /\ Send(Failed("issueComments", outcome))
                     /\ UNCHANGED calls
              ELSE IF HasCommentNum(req)
                THEN /\ net' = [net EXCEPT !["issueComments"] = "ok"]
                     /\ Send(IssueCommentContinue(req, cs))
                     /\ UNCHANGED calls
              ELSE /\ net' = [net EXCEPT !["issueComments"] = "ok", !["issue"] = "pending"]
                   /\ calls' = Append(calls, "issue")
                   /\ pc' = "awaitIssue"
                   /\ UNCHANGED responses
  /\ UNCHANGED <<sessions, req, upstream, encoderThrows, reviews, issue>>

\* The issue GET answers.
IssueSettle ==
  /\ net["issue"] = "pending"
  /\ \E outcome \in {0} \cup FailStatuses :
       /\ Settled("issue", outcome)
       /\ issue' = IF outcome = 0 THEN upstream.issue ELSE issue
       /\ IF outcome # 0 THEN Send(Failed("issue", outcome))
          ELSE Send(IssueContinue(req, upstream.issue, comments))
  /\ UNCHANGED <<sessions, req, upstream, encoderThrows, calls, reviews, comments>>

Next ==
  \/ HealthCheck
  \/ RootRedirect
  \/ NotFoundHandler
  \/ HandlePRComments
  \/ HandleIssueComments
  \/ BunFetch
  \/ ReviewsSettle
  \/ PullCommentsSettle
  \/ IssueCommentsSettle
  \/ IssueSettle

Spec == Init /\ [][Next]_vars

\* The handler runs when a request has arrived, and every GET it has issued
\* is answered in the end.
InitFair ==
  /\ InitEveryPath
  /\ InitHandler
  /\ sessions = NoSessions

FairSpec == InitFair /\ [][Next]_vars /\ WF_vars(Next)

\* ------------------------------------------------- two requests interleaved
\* Express runs a handler per inbound request; each invocation has its own
\* locals and its own GitHubClient. A session is one invocation: its request,
\* the answers the upstream gives to its GETs, and the handler's locals.
SessionIds == {1, 2}

Other(i) == 3 - i

Session(r, up) ==
  [req |-> r, upstream |-> up, pc |-> "received",
   net |-> [e \in Endpoints |-> "idle"], netError |-> [e \in Endpoints |-> 0],
   calls |-> <<>>, settled |-> <<>>,
   reviews |-> <<>>, comments |-> <<>>, issue |-> NoIssue, responses |-> <<>>]

\* Requests to the pull and issues routes: flat, threaded, with an ordinal in
\* or out of range, and without a token.
SessionRequests ==
  { Request(ro, <<"o">>, <<"r">>, <<"7">>, cn, <<"t">>) :
      ro \in { [route |-> "pull", query |-> NoQuery],
               [route |-> "pull", query |-> Query("true", "true", "absent")],
               [route |-> "issues", query |-> NoQuery] },
      cn \in {<<>>, <<"2">>} }
  \cup { Request([route |-> "pull", query |-> NoQuery], <<"o">>, <<"r">>, <<"7">>, <<>>, <<>>) }

\* What the upstream answers: the same pull request or issue at two moments.
SessionUpstreams ==
  { Upstream(<<<<Review(1, "R")>>>>,
             <<<<Comment(1, Undef, Null, "A"), Comment(2, Num(1), Num(1), "B")>>>>,
             DefaultIssue),
    Upstream(<<<<>>>>,
             <<<<Comment(3, Undef, Num(1), "C")>>>>,
             [present |-> TRUE, number |-> 7, body |-> ""]) }

InitTwo ==
  /\ sessions \in [SessionIds -> { Session(r, up) : r \in SessionRequests,
                                                     up \in SessionUpstreams }]
  /\ req = Request([route |-> "pull", query |-> NoQuery], <<"o">>, <<"r">>, <<"7">>, <<>>, <<"t">>)
  /\ upstream = Upstream(<<<<>>>>, <<<<>>>>, DefaultIssue)
  /\ encoderThrows = {}
  /\ InitHandler

\* res.status(...).send(...) of one invocation.
SendIn(s, resp) == [s EXCEPT !.responses = Append(@, resp), !.pc = "done"]

\* The invocation's client issues GETs and the handler waits at an await.
IssueIn(s, es, await) ==
  [s EXCEPT !.net = [e \in Endpoints |->
                       IF \E k \in 1..Len(es) : es[k] = e THEN "pending" ELSE @[e]],
            !.calls = @ \o es,
            !.pc = await]

SettledIn(s, e, outcome) ==
  [s EXCEPT !.net[e] = IF outcome = 0 THEN "ok" ELSE "failed",
            !.netError[e] = outcome,
            !.settled = Append(@, e)]

\* A client that answers from what another request's client has fetched.
ClientFetchCached(ss, i, e) ==
  IF e = "issue" THEN ss[i].upstream.issue
  ELSE IF e = "reviews"
    THEN IF ss[Other(i)].net[e] = "ok" THEN ss[Other(i)].reviews
         ELSE FetchList(ss[i].upstream.reviews)
  ELSE IF ss[Other(i)].net[e] = "ok" THEN ss[Other(i)].comments
  ELSE FetchList(ss[i].upstream.comments)

\* What a successful GET of invocation i returns: the handler makes a new
\* GitHubClient, which holds only the token, and each method fetches from the
\* upstream anew.
ClientFetch(ss, i, e) ==
  IF e = "issue" THEN ss[i].upstream.issue
  ELSE IF e = "reviews" THEN FetchList(ss[i].upstream.reviews)
  ELSE FetchList(ss[i].upstream.comments)

\* handlePRComments of invocation i up to its first await.
HandlePRCommentsIn(i) ==
  /\ sessions[i].pc = "received" /\ Route(sessions[i].req) = "pull"
  /\ LET s == sessions[i]
     IN  sessions' = [sessions EXCEPT ![i] =
           IF ValidatePR(s.req).status # 0 THEN SendIn(s, ValidatePR(s.req))
           ELSE IF FetchesReviews(s.req)
             THEN IssueIn(s, <<"reviews", "pullComments">>, "awaitBoth")
           ELSE IssueIn(s, <<"pullComments">>, "awaitComments")]
  /\ UNCHANGED <<req, upstream, encoderThrows, pc, net, netError, calls, settled, reviews,
                 comments, issue, responses>>

\* handleIssueComments of invocation i up to its first await.
HandleIssueCommentsIn(i) ==
  /\ sessions[i].pc = "received" /\ Route(sessions[i].req) = "issues"
  /\ LET s == sessions[i]
     IN  sessions' = [sessions EXCEPT ![i] =
           IF ValidateIssue(s.req).status # 0 THEN SendIn(s, ValidateIssue(s.req))
           ELSE IssueIn(s, <<"issueComments">>, "awaitIssueComments")]
  /\ UNCHANGED <<req, upstream, encoderThrows, pc, net, netError, calls, settled, reviews,
                 comments, issue, responses>>

\* The reviews GET of invocation i answers.
ReviewsSettleIn(i) ==
  /\ sessions[i].net["reviews"] = "pending"
  /\ \E outcome \in {0} \cup FailStatuses :
       LET s == sessions[i]
           revs == IF outcome = 0 THEN ClientFetch(sessions, i, "reviews") ELSE s.reviews
           join == PromiseAll(<<IF outcome = 0 THEN "ok" ELSE "failed", s.net["pullComments"]>>)
           t == [SettledIn(s, "reviews", outcome) EXCEPT !.reviews = revs]
       IN  sessions' = [sessions EXCEPT ![i] =
             IF s.pc = "awaitBoth" /\ join = "rejected"
               THEN SendIn(t, Failed("reviews", outcome))
             ELSE IF s.pc = "awaitBoth" /\ join = "fulfilled"
               THEN SendIn(t, PRThreadedContinue(s.req, revs, s.comments))
             ELSE t]
  /\ UNCHANGED <<req, upstream, encoderThrows, pc, net, netError, calls, settled, reviews,
                 comments, issue, responses>>

\* The pull-request comments GET of invocation i answers.
PullCommentsSettleIn(i) ==
  /\ sessions[i].net["pullComments"] = "pending"
  /\ \E outcome \in {0} \cup FailStatuses :
       LET s == sessions[i]
           cs == IF outcome = 0 THEN ClientFetch(sessions, i, "pullComments") ELSE s.comments
           join == PromiseAll(<<s.net["reviews"], IF outcome = 0 THEN "ok" ELSE "failed">>)
           t == [SettledIn(s, "pullComments", outcome) EXCEPT !.comments = cs]
       IN  sessions' = [sessions EXCEPT ![i] =
             IF s.pc = "awaitBoth" /\ join = "rejected"
               THEN SendIn(t, Failed("pullComments", outcome))
             ELSE IF s.pc = "awaitBoth" /\ join = "fulfilled"
               THEN SendIn(t, PRThreadedContinue(s.req, s.reviews, cs))
             ELSE IF s.pc = "awaitComments" /\ outcome # 0
               THEN SendIn(t, Failed("pullComments", outcome))
             ELSE IF s.pc = "awaitComments"
               THEN SendIn(t, PRFlatContinue(s.req, cs))
             ELSE t]
  /\ UNCHANGED <<req, upstream, encoderThrows, pc, net, netError, calls, settled, reviews,
                 comments, issue, responses>>

\* The issue comments GET of invocation i answers.
IssueCommentsSettleIn(i) ==
  /\ sessions[i].net["issueComments"] = "pending"
  /\ \E outcome \in {0} \cup FailStatuses :
       LET s == sessions[i]
           cs == IF outcome = 0 THEN ClientFetch(sessions, i, "issueComments") ELSE s.comments
           t == [SettledIn(s, "issueComments", outcome) EXCEPT !.comments = cs]
       IN  sessions' = [sessions EXCEPT ![i] =
             IF outcome # 0 THEN SendIn(t, Failed("issueComments", outcome))
             ELSE IF HasCommentNum(s.req) THEN SendIn(t, IssueCommentContinue(s.req, cs))
             ELSE IssueIn(t, <<"issue">>, "awaitIssue")]
  /\ UNCHANGED <<req, upstream, encoderThrows, pc, net, netError, calls, settled, reviews,
                 comments, issue, responses>>

\* The issue GET of invocation i answers.
IssueSettleIn(i) ==
  /\ sessions[i].net["issue"] = "pending"
  /\ \E outcome \in {0} \cup FailStatuses :
       LET s == sessions[i]
           iss == IF outcome = 0 THEN ClientFetch(sessions, i, "issue") ELSE s.issue
           t == [SettledIn(s, "issue", outcome) EXCEPT !.issue = iss]
       IN  sessions' = [sessions EXCEPT ![i] =
             IF outcome # 0 THEN SendIn(t, Failed("issue", outcome))
             ELSE SendIn(t, IssueContinue(s.req, iss, s.comments))]
  /\ UNCHANGED <<req, upstream, encoderThrows, pc, net, netError, calls, settled, reviews,
                 comments, issue, responses>>

\* The event loop runs one step of one invocation at a time, in any order.
NextTwo ==
  \E i \in SessionIds :
    \/ HandlePRCommentsIn(i)
    \/ HandleIssueCommentsIn(i)
    \/ ReviewsSettleIn(i)
    \/ PullCommentsSettleIn(i)
    \/ IssueCommentsSettleIn(i)
    \/ IssueSettleIn(i)

SpecTwo == InitTwo /\ [][NextTwo]_vars

\* ------------------------------------------------------------------- claims
TheResponse == responses[1]

\* A field that holds no number: null, or missing from the JSON.
NoNumber(x) == x.t # "number"

Answered == pc = "done" /\ Len(responses) = 1

ThreadedRoute == Route(req) = "pull" /\ (req.includeReviews \/ req.showThreading)

FlatRoute == Route(req) \in {"pull", "issues", "bun"} /\ ~ThreadedRoute

CommentsEndpoint == IF Route(req) = "issues" THEN "issueComments" ELSE "pullComments"

\* filteredComments: the fetched list, narrowed to the selected comment once
\* an ordinal has passed the range check. With an ordinal out of range the
\* handler returns before the selection, and it is still the whole list.
Filtered ==
  IF HasCommentNum(req) /\ CommentNum(req) \in 1..Len(comments)
    THEN <<comments[CommentNum(req)]>>
  ELSE comments

\* The rendered comment sections of a document, roots and replies.
CommentItems(doc) ==
  SelectSeq(doc.items, LAMBDA it : it.kind \in {"comment", "reply"})

Renders(it, c) == it.id = c.id /\ it.body = c.body

\* A decimal number and nothing else: an optional minus sign, then digits only.
IsNumber(s) ==
  /\ Len(s) > 0
  /\ IF s[1] = "-" THEN AllDigits(Tail(s)) ELSE AllDigits(s)

\* C1: every list fetch whose upstream response names a next page follows the
\* continuation until there is none and returns the concatenation of all
\* pages in page order; the header of the full view counts all of them.
C1_AllPagesFetched ==
  /\ \A e \in {"reviews", "pullComments", "issueComments"} :
       net[e] = "ok" =>
         (IF e = "reviews" THEN reviews ELSE comments) = UpstreamList(e)
  /\ (Answered /\ TheResponse.status = 200 /\ ~HasCommentNum(req))
       => TheResponse.doc.totalComments = Len(Concat(upstream.comments))

\* C2: in threaded rendering a comment is treated as a root iff its
\* in_reply_to_id is absent or names no other comment of the input; a reply
\* whose parent is missing is rendered as a root, not dropped.
C2_RootIffNoResolvableParent ==
  (Answered /\ TheResponse.status = 200 /\ Route(req) = "pull" /\ req.showThreading)
    => LET cs == Filtered
           roots == RootComments(cs)
           IsRoot(i) == \/ NoNumber(cs[i].in_reply_to_id)
                        \/ ~\E j \in 1..Len(cs) : j # i /\ Num(cs[j].id) = cs[i].in_reply_to_id
       IN  /\ roots = SelectSeq(cs, LAMBDA c : \E i \in 1..Len(cs) : cs[i] = c /\ IsRoot(i))
           /\ ~req.includeReviews =>
                \A i \in 1..Len(cs) : IsRoot(i) =>
                  \E p \in 1..Len(TheResponse.doc.items) :
                    /\ TheResponse.doc.items[p].kind = "comment"
                    /\ TheResponse.doc.items[p].depth = 0
                    /\ Renders(TheResponse.doc.items[p], cs[i])

\* C3: on the flat PR routes and the issue route, ordinal k with 1 <= k <= M
\* of M fetched comments gives a 200 response that renders exactly one
\* comment, the k-th of the fetched sequence.
C3_OrdinalSelectsKth ==
  (pc = "done" /\ FlatRoute /\ net[CommentsEndpoint] = "ok"
     /\ HasCommentNum(req) /\ CommentNum(req) \in 1..Len(comments))
    => /\ Len(responses) = 1
       /\ TheResponse.status = 200
       /\ LET its == CommentItems(TheResponse.doc)
          IN  /\ Len(its) = 1
              /\ Renders(its[1], comments[CommentNum(req)])
              /\ TheResponse.doc.totalComments = 1

C3_Witness ==
  /\ Answered /\ FlatRoute /\ TheResponse.status = 200
  /\ HasCommentNum(req) /\ CommentNum(req) = 2 /\ Len(comments) = 3
  /\ comments[1] # comments[2]

\* C4: on the PR route with include_reviews or show_threading, ordinal k with
\* 1 <= k <= M still renders exactly one comment, the k-th fetched one, also
\* when that comment is a reply.
C4_ThreadedOrdinalSelectsKth ==
  (pc = "done" /\ ThreadedRoute /\ net["reviews"] = "ok" /\ net["pullComments"] = "ok"
     /\ HasCommentNum(req) /\ CommentNum(req) \in 1..Len(comments))
    => /\ Len(responses) = 1
       /\ TheResponse.status = 200
       /\ LET its == CommentItems(TheResponse.doc)
          IN  /\ Len(its) = 1
              /\ Renders(its[1], comments[CommentNum(req)])

\* Path parameters that pass the handler's checks, stated on the strings: a
\* name for owner and repo, an id and (when given) an ordinal that start with
\* a number; on the standalone server, digits only.
\* A string the handlers take for a number: possibly white space, possibly a
\* sign, then a digit; anything may follow.
StartsWithNumber(s) ==
  \E k \in 1..Len(s) :
    /\ \A j \in 1..(k - 1) : s[j] \in WhiteSpace
    /\ \/ s[k] \in Digits
       \/ s[k] \in {"-", "+"} /\ Len(s) > k /\ s[k + 1] \in Digits

PassesValidation ==
  /\ req.owner # <<>> /\ req.repo # <<>>
  /\ IF Route(req) = "bun"
       THEN AllDigits(req.id) /\ (req.commentNumber = <<>> \/ AllDigits(req.commentNumber))
       ELSE StartsWithNumber(req.id)
            /\ (req.commentNumber = <<>> \/ StartsWithNumber(req.commentNumber))

NoFetchFailed == \A e \in Endpoints : net[e] # "failed"

\* C5 as claimed: on every route an ordinal k < 1 or k > M (0, M+1, any
\* negative k) gets the out-of-range response after the fetch, with the range
\* "between 1 and M" and nothing rendered.
C5_OutOfRangeOnEveryRoute ==
  (pc = "done" /\ req.owner # <<>> /\ req.repo # <<>> /\ IsNumber(req.id)
     /\ req.token # <<>> /\ IsNumber(req.commentNumber) /\ NoFetchFailed
     /\ (CommentNum(req) < 1 \/ CommentNum(req) > Len(FetchList(upstream.comments))))
    => /\ Len(responses) = 1
       /\ TheResponse.kind = "outOfRange"
       /\ TheResponse.total = Len(FetchList(upstream.comments))

\* C5 amended: the same on the routes of app.ts for every out-of-range k, and
\* on the standalone server for k = 0 and k > M; there a negative ordinal does
\* not match the route and gets the route-not-found response with no fetch.
\* The out-of-range response is a 404, an upstream failure a 500.
C5_OutOfRangeAfterFetch ==
  /\ (pc = "done" /\ PassesValidation /\ req.token # <<>> /\ NoFetchFailed
        /\ HasCommentNum(req)
        /\ (CommentNum(req) < 1 \/ CommentNum(req) > Len(FetchList(upstream.comments))))
       => /\ Len(responses) = 1
          /\ TheResponse.status = 404
          /\ TheResponse.kind = "outOfRange"
          /\ TheResponse.commentNumber = CommentNum(req)
          /\ TheResponse.total = Len(FetchList(upstream.comments))
          /\ TheResponse.doc = NoDoc
          /\ net[CommentsEndpoint] = "ok"
  /\ (pc = "done" /\ Route(req) = "bun" /\ req.owner # <<>> /\ req.repo # <<>>
        /\ IsNumber(req.id) /\ IsNumber(req.commentNumber) /\ req.commentNumber[1] = "-")
       => /\ TheResponse.kind = "routeNotFound"
          /\ calls = <<>>
  /\ (Answered /\ ~NoFetchFailed) => TheResponse.status = 500

C5_Witness ==
  /\ Answered /\ TheResponse.kind = "outOfRange"
  /\ TheResponse.total >= 1
  /\ TheResponse.commentNumber = TheResponse.total + 1

\* C6 as claimed: a request without a token ends with 401 whether or not
\* owner, repo, id and ordinal are valid (here: whatever the id and the
\* ordinal segments are, owner and repo being present).
C6_NoTokenAlways401 ==
  (pc = "done" /\ req.token = <<>> /\ Route(req) \in {"pull", "issues"}
     /\ req.owner # <<>> /\ req.repo # <<>> /\ req.id # <<>>)
    => TheResponse.status = 401

\* C6 amended: a request without a token to a pull or issues path whose
\* parameters pass the handler's checks ends with 401 and issues no upstream
\* request, whatever the ordinal's range; one that fails those checks gets
\* their response instead (400; on the standalone server 404), and one with
\* an empty owner, repo or id matches no route and gets the 404 of the
\* fallback handler.
C6_NoToken401AfterValidation ==
  /\ (pc = "done" /\ req.token = <<>> /\ Route(req) \in {"pull", "issues", "bun"}
        /\ PassesValidation)
       => /\ Len(responses) = 1
          /\ TheResponse.status = 401
          /\ TheResponse.kind = "missingToken"
  /\ (pc = "done" /\ req.token = <<>> /\ Route(req) \in {"pull", "issues"}
        /\ ~PassesValidation)
       => TheResponse.status = 400
  /\ (pc = "done" /\ req.token = <<>> /\ Route(req) = "bun" /\ ~PassesValidation)
       => TheResponse = RouteNotFound
  /\ (pc = "done" /\ req.token = <<>> /\ req.route \in {"pull", "issues"}
        /\ (req.owner = <<>> \/ req.repo = <<>> \/ req.id = <<>>))
       => TheResponse = RouteNotFound
  /\ req.token = <<>> => calls = <<>>

C6_Witness ==
  /\ Answered /\ req.token = <<>> /\ TheResponse.status = 401
  /\ HasCommentNum(req) /\ CommentNum(req) < 1

\* C7: a request whose id or ordinal is not a number (including a string that
\* only starts with digits) ends with the 400 validation response, and no
\* upstream request is ever issued for it.
C7_NonNumericRejectedBeforeFetch ==
  (Route(req) \in {"pull", "issues"} /\ req.token # <<>>
     /\ (~IsNumber(req.id) \/ (req.commentNumber # <<>> /\ ~IsNumber(req.commentNumber))))
    => /\ calls = <<>>
       /\ pc = "done" => TheResponse.status = 400

\* C8: the two fetches are in flight together and either may settle first;
\* whatever the order, a document is rendered only once both have succeeded.
C8_RenderAfterBothFetches ==
  /\ (ThreadedRoute /\ pc = "awaitBoth")
       => /\ calls = <<"reviews", "pullComments">>
          /\ \A e \in {"reviews", "pullComments"} : net[e] \in {"pending", "ok"}
          /\ \E e \in {"reviews", "pullComments"} : net[e] = "pending"
          /\ responses = <<>>
  /\ (ThreadedRoute /\ responses # <<>> /\ TheResponse.kind \in {"ok", "outOfRange"})
       => /\ net["reviews"] = "ok" /\ net["pullComments"] = "ok"
          /\ reviews = FetchList(upstream.reviews)
          /\ comments = FetchList(upstream.comments)
  /\ (ThreadedRoute /\ net["reviews"] = "ok" /\ net["pullComments"] = "ok")
       => /\ Answered
          /\ TheResponse.kind \in {"ok", "outOfRange", "failed"}
          /\ TheResponse.kind = "failed" => TheResponse.error.endpoint = "render"

\* The comments fetch, issued second, has settled first, and the document
\* was rendered once the reviews had arrived too.
C8_Witness ==
  /\ ThreadedRoute /\ Answered /\ TheResponse.status = 200
  /\ calls = <<"reviews", "pullComments">>
  /\ settled = <<"pullComments", "reviews">>
  /\ TheResponse.doc.totalReviews > 0 /\ TheResponse.doc.totalComments > 0

\* C9: if either of the two fetches fails, the request ends with the failure
\* response carrying that fetch's error; nothing is rendered, no 200 is sent.
C9_EitherFailureAborts ==
  (ThreadedRoute /\ (net["reviews"] = "failed" \/ net["pullComments"] = "failed"))
    => /\ Answered
       /\ TheResponse.status = 500
       /\ TheResponse.kind = "failed"
       /\ TheResponse.doc = NoDoc
       /\ TheResponse.error.endpoint \in {"reviews", "pullComments"}
       /\ net[TheResponse.error.endpoint] = "failed"
       /\ TheResponse.error.status = netError[TheResponse.error.endpoint]
       /\ TheResponse.error.status \in FailStatuses

C9_Witness ==
  /\ ThreadedRoute /\ Answered
  /\ net["reviews"] = "ok" /\ net["pullComments"] = "failed"
  /\ TheResponse.error = [endpoint |-> "pullComments", status |-> 404]

\* The last group heading before position p of a document.
HeadingBefore(items, p) ==
  LET hs == {q \in 1..(p - 1) : items[q].kind \in {"review", "standalone"}}
  IN  IF hs = {} THEN Item("none", 0, 0, 0, "")
      ELSE items[CHOOSE q \in hs : \A x \in hs : x <= q]

\* C10: with include_reviews and show_threading, every root comment is in
\* exactly one group, the standalone group when its review id is null and
\* otherwise the group of the review with that id; the groups come in the
\* order of the reviews. Stated for a non-empty list of reviews with
\* distinct ids.
C10_RootsGroupedByReview ==
  (Answered /\ TheResponse.status = 200 /\ Route(req) = "pull"
     /\ req.includeReviews /\ req.showThreading /\ Len(reviews) > 0
     /\ \A a, b \in 1..Len(reviews) : reviews[a].id = reviews[b].id => a = b)
    => LET cs == Filtered
           items == TheResponse.doc.items
           Places(i) == {p \in 1..Len(items) :
                           /\ items[p].kind = "comment" /\ items[p].depth = 0
                           /\ Renders(items[p], cs[i])}
       IN  /\ \A i \in 1..Len(cs) : NoNumber(cs[i].in_reply_to_id) =>
                /\ Cardinality(Places(i)) = Cardinality({j \in 1..Len(cs) : cs[j] = cs[i]})
                /\ \A p \in Places(i) :
                     LET h == HeadingBefore(items, p)
                     IN  IF cs[i].pull_request_review_id = Null
                           THEN h.kind = "standalone"
                           ELSE h.kind = "review" /\ Num(h.id) = cs[i].pull_request_review_id
           /\ LET hs == SelectSeq(items, LAMBDA it : it.kind = "review")
              IN  Len(cs) > 0 => [q \in 1..Len(hs) |-> hs[q].id]
                                   = [q \in 1..Len(reviews) |-> reviews[q].id]

\* A rendered comment or reply.
IsCommentItem(it) == it.kind \in {"comment", "reply"}

\* The position of the section a reply at position p hangs under: the last
\* comment or reply before p that is one level less deep (0: none).
ParentPos(items, p) ==
  LET qs == {q \in 1..(p - 1) : IsCommentItem(items[q]) /\ items[q].depth = items[p].depth - 1}
  IN  IF qs = {} THEN 0 ELSE CHOOSE q \in qs : \A x \in qs : x <= q

\* The sections that hang directly under the one at position p, in order.
ChildrenOf(items, p) ==
  LET idx == [q \in 1..Len(items) |-> q]
      at == SelectSeq(idx, LAMBDA q : /\ q > p /\ IsCommentItem(items[q])
                                       /\ items[q].depth = items[p].depth + 1
                                       /\ ParentPos(items, q) = p)
  IN  [n \in 1..Len(at) |-> items[at[n]]]

\* The id and body of each element of a sequence of comments or sections.
IdBodies(seq) == [n \in 1..Len(seq) |-> <<seq[n].id, seq[n].body>>]

\* The comment at position i of cs is a reply whose parent is in cs.
ResolvedReply(cs, i) ==
  /\ ~NoNumber(cs[i].in_reply_to_id)
  /\ \E j \in 1..Len(cs) : j # i /\ Num(cs[j].id) = cs[i].in_reply_to_id

\* No two comments of cs have the same id and none replies to itself, as in
\* what the upstream serves.
DistinctIds(cs) ==
  /\ \A a, b \in 1..Len(cs) : cs[a].id = cs[b].id => a = b
  /\ \A a \in 1..Len(cs) : cs[a].in_reply_to_id # Num(cs[a].id)

ThreadedView ==
  Answered /\ TheResponse.status = 200 /\ Route(req) = "pull" /\ req.showThreading

\* C11: in the threaded views every comment whose in_reply_to_id names a
\* comment of the input is rendered as a child of that comment, whatever its
\* own review id; the children of a comment come in input order; a reply is
\* never rendered as a member of a review group. Stated for comments with
\* distinct ids.
C11_RepliesAreChildren ==
  (ThreadedView /\ DistinctIds(Filtered))
    => LET cs == Filtered
           items == TheResponse.doc.items
       IN  /\ \A i \in 1..Len(cs) : ResolvedReply(cs, i) =>
                \E p \in 1..Len(items) :
                  /\ items[p].kind = "reply" /\ Renders(items[p], cs[i])
                  /\ ParentPos(items, p) # 0
                  /\ Num(items[ParentPos(items, p)].id) = cs[i].in_reply_to_id
           /\ \A p \in 1..Len(items) : IsCommentItem(items[p]) =>
                IdBodies(ChildrenOf(items, p))
                  = IdBodies(SelectSeq(cs, LAMBDA c : c.in_reply_to_id = Num(items[p].id)))
           /\ \A i \in 1..Len(cs), p \in 1..Len(items) :
                (ResolvedReply(cs, i) /\ IsCommentItem(items[p]) /\ Renders(items[p], cs[i]))
                  => items[p].kind = "reply"

\* The position of the last group heading before position p (0: none).
HeadingPos(items, p) ==
  LET hs == {q \in 1..(p - 1) : items[q].kind \in {"review", "standalone"}}
  IN  IF hs = {} THEN 0 ELSE CHOOSE q \in hs : \A x \in hs : x <= q

\* The root comments listed under the heading at position h, in order.
GroupAt(items, h) ==
  LET idx == [q \in 1..Len(items) |-> q]
      at == SelectSeq(idx, LAMBDA q : /\ items[q].kind = "comment" /\ items[q].depth = 0
                                       /\ HeadingPos(items, q) = h)
  IN  [n \in 1..Len(at) |-> items[at[n]]]

\* Who is grouped with whom in a document: each root with the heading it is
\* under, each reply with the comment it hangs under.
Grouping(doc) ==
  LET items == doc.items
  IN  [roots |-> { <<HeadingBefore(items, p).kind, HeadingBefore(items, p).id,
                     items[p].id, items[p].body>> :
                   p \in {q \in 1..Len(items) : items[q].kind = "comment"} },
       replies |-> { <<items[ParentPos(items, p)].id, items[p].id, items[p].body>> :
                     p \in {q \in 1..Len(items) :
                              items[q].kind = "reply" /\ ParentPos(items, q) # 0} }]

\* Every ordering of the elements of a sequence.
Reorderings(seq) ==
  { [i \in 1..Len(seq) |-> seq[f[i]]] :
      f \in {g \in [1..Len(seq) -> 1..Len(seq)] :
               \A a, b \in 1..Len(seq) : g[a] = g[b] => a = b} }

TheOptions ==
  [includeReviews |-> req.includeReviews, showThreading |-> req.showThreading,
   resolvedFilter |-> req.resolvedFilter]

\* C12: grouping does not depend on the order of the comments. For a root
\* without review, a reply to it and a root of a review in the list, in any
\* order, the first is in the standalone group with the reply as its child
\* and the other under its review; for every input, every reordering gives
\* the same grouping, and the members of a group come in input order.
C12_GroupingOrderIndependent ==
  ThreadedView
    => LET cs == Filtered
           items == TheResponse.doc.items
       IN  /\ (req.includeReviews /\ Len(cs) = 3 /\ DistinctIds(cs)) =>
                \A ia, ib, ic \in 1..3 :
                  ( /\ NoNumber(cs[ia].in_reply_to_id)
                    /\ cs[ia].pull_request_review_id = Null
                    /\ cs[ib].in_reply_to_id = Num(cs[ia].id)
                    /\ NoNumber(cs[ic].in_reply_to_id)
                    /\ \E r \in 1..Len(reviews) : Num(reviews[r].id) = cs[ic].pull_request_review_id )
                  => /\ \E p \in 1..Len(items) :
                          /\ items[p].kind = "comment" /\ Renders(items[p], cs[ia])
                          /\ HeadingBefore(items, p).kind = "standalone"
                          /\ IdBodies(ChildrenOf(items, p)) = IdBodies(<<cs[ib]>>)
                     /\ \E p \in 1..Len(items) :
                          /\ items[p].kind = "comment" /\ Renders(items[p], cs[ic])
                          /\ HeadingBefore(items, p).kind = "review"
                          /\ Num(HeadingBefore(items, p).id) = cs[ic].pull_request_review_id
                          /\ ChildrenOf(items, p) = <<>>
           /\ \A q \in Reorderings(cs) :
                Grouping(FormatCommentsWithReviews(reviews, q, TheOptions))
                  = Grouping(TheResponse.doc)
           /\ \A h \in 1..Len(items) :
                items[h].kind \in {"review", "standalone"} =>
                  IdBodies(GroupAt(items, h))
                    = IdBodies(SelectSeq(cs, LAMBDA c :
                        /\ NoNumber(c.in_reply_to_id)
                        /\ c.pull_request_review_id
                             = (IF items[h].kind = "standalone" THEN Null
                                ELSE Num(items[h].id))))

\* The review's root first, then the reply, then the root it replies to.
C12_Witness ==
  /\ ThreadedView /\ req.includeReviews
  /\ Filtered = <<Comment(3, Undef, Num(1), "C"), Comment(2, Num(1), Num(1), "B"),
                  Comment(1, Undef, Null, "A")>>
  /\ \E r \in 1..Len(reviews) : reviews[r].id = 1

\* The headings, review bodies and root comments of a document, in order.
TopLevel(items) ==
  LET top == SelectSeq(items, LAMBDA it :
               \/ it.kind \in {"review", "reviewBody", "standalone"}
               \/ it.kind = "comment" /\ it.depth = 0)
  IN  [n \in 1..Len(top) |-> <<top[n].kind, top[n].id, top[n].body>>]

\* The comments without in_reply_to_id whose review id is key, as root entries.
RootEntries(cs, key) ==
  LET rs == SelectSeq(cs, LAMBDA c : NoNumber(c.in_reply_to_id)
                                      /\ c.pull_request_review_id = key)
  IN  [n \in 1..Len(rs) |-> <<"comment", rs[n].id, rs[n].body>>]

\* Each review in input order with its body and its roots, then the
\* standalone roots under their heading.
ReviewsThenStandalone(revs, cs) ==
  Flatten([i \in 1..Len(revs) |->
    <<<<"review", revs[i].id, "">>>>
      \o (IF revs[i].body # "" THEN <<<<"reviewBody", revs[i].id, revs[i].body>>>> ELSE <<>>)
      \o RootEntries(cs, Num(revs[i].id))])
  \o (IF RootEntries(cs, Null) # <<>>
      THEN <<<<"standalone", 0, "">>>> \o RootEntries(cs, Null) ELSE <<>>)

BothFlagsView == ThreadedView /\ req.includeReviews

\* C13 as claimed: with both flags the output lists each review in input
\* order with its body and its root comments, then the standalone comments
\* under the "Standalone Comments" heading, for every input, an empty list of
\* reviews included.
C13_ReviewsThenStandaloneAlways ==
  (BothFlagsView /\ DistinctIds(Filtered) /\ Len(Filtered) > 0)
    => TopLevel(TheResponse.doc.items) = ReviewsThenStandalone(reviews, Filtered)

\* C13 amended: that holds when the list of reviews is not empty; with no
\* review the roots are listed in input order under no heading at all.
C13_ReviewsThenStandalone ==
  /\ (BothFlagsView /\ Len(reviews) > 0)
       => TopLevel(TheResponse.doc.items) = ReviewsThenStandalone(reviews, Filtered)
  /\ (BothFlagsView /\ Len(reviews) = 0 /\ Len(Filtered) > 0)
       => /\ \A p \in 1..Len(TheResponse.doc.items) :
               TheResponse.doc.items[p].kind \notin {"review", "reviewBody", "standalone"}
          /\ TopLevel(TheResponse.doc.items)
               = [n \in 1..Len(RootComments(Filtered)) |->
                    <<"comment", RootComments(Filtered)[n].id, RootComments(Filtered)[n].body>>]

\* Two reviews, a root under the second and a standalone root after them.
C13_Witness ==
  /\ BothFlagsView /\ Len(reviews) = 2 /\ reviews[1].id # reviews[2].id
  /\ \E p, q \in 1..Len(TheResponse.doc.items) :
       /\ p < q
       /\ TheResponse.doc.items[p].kind = "comment"
       /\ HeadingBefore(TheResponse.doc.items, p).kind = "review"
       /\ HeadingBefore(TheResponse.doc.items, p).id = reviews[2].id
       /\ TheResponse.doc.items[q].kind = "comment"
       /\ HeadingBefore(TheResponse.doc.items, q).kind = "standalone"

\* The sections of a document without the rules between them.
Sections(items) ==
  LET secs == SelectSeq(items, LAMBDA it : it.kind # "hr")
  IN  [n \in 1..Len(secs) |-> <<secs[n].kind, secs[n].id, secs[n].label, secs[n].body>>]

ReviewsFlatView ==
  /\ Answered /\ TheResponse.status = 200 /\ Route(req) = "pull"
  /\ req.includeReviews /\ ~req.showThreading

\* C14: with include_reviews and without show_threading the output has one
\* section per review in input order, numbered from 1, with the body when the
\* review has one, and only after the last review the comments as a flat list
\* labelled 1..N in input order, replies included.
C14_ReviewsThenFlatList ==
  (ReviewsFlatView /\ Len(reviews) + Len(Filtered) > 0)
    => Sections(TheResponse.doc.items)
         = Flatten([i \in 1..Len(reviews) |->
             <<<<"review", reviews[i].id, i, "">>>>
               \o (IF reviews[i].body # ""
                   THEN <<<<"reviewBody", reviews[i].id, 0, reviews[i].body>>>> ELSE <<>>)])
           \o [i \in 1..Len(Filtered) |->
                 <<"comment", Filtered[i].id, i, Filtered[i].body>>]

\* A review without body, one with a body, then a comment and a reply.
C14_Witness ==
  /\ ReviewsFlatView
  /\ reviews = <<Review(2, ""), Review(1, "R")>>
  /\ Len(Filtered) = 2 /\ ~NoNumber(Filtered[2].in_reply_to_id)

ThreadingOnlyView == ThreadedView /\ ~req.includeReviews

\* C15: with show_threading and without include_reviews the output has the
\* trees of the root comments (the comments without in_reply_to_id) in input
\* order, each depth-first: a section is followed by its replies' subtrees,
\* one level deeper and in input order, before the next section of its own
\* level; there is no review section and no group heading.
C15_TreesDepthFirstNoReviews ==
  ThreadingOnlyView
    => LET cs == Filtered
           items == TheResponse.doc.items
           cis == CommentItems(TheResponse.doc)
       IN  /\ \A p \in 1..Len(items) :
                items[p].kind \in {"comment", "reply", "hr", "sentinel"}
           /\ TopLevel(items)
                = [n \in 1..Len(RootComments(cs)) |->
                     <<"comment", RootComments(cs)[n].id, RootComments(cs)[n].body>>]
           /\ \A n \in 1..Len(cis) :
                /\ (cis[n].kind = "comment") = (cis[n].depth = 0)
                /\ cis[n].depth <= (IF n = 1 THEN 0 ELSE cis[n - 1].depth + 1)
           /\ \A p \in 1..Len(items) : IsCommentItem(items[p]) =>
                IdBodies(ChildrenOf(items, p))
                  = IdBodies(SelectSeq(cs, LAMBDA c : c.in_reply_to_id = Num(items[p].id)))

\* A root, its reply and a second root, with reviews fetched: the reply comes
\* between the two roots.
C15_Witness ==
  /\ ThreadingOnlyView /\ Len(reviews) > 0
  /\ Filtered = <<Comment(1, Undef, Null, "A"), Comment(3, Undef, Num(1), "C"),
                  Comment(2, Num(1), Num(1), "B")>>
  /\ IdBodies(CommentItems(TheResponse.doc)) = <<<<1, "A">>, <<2, "B">>, <<3, "C">>>>

\* include_reviews=true or show_threading=true is in the query string.
FlagRequested ==
  req.query.include_reviews = "true" \/ req.query.show_threading = "true"

\* C16: on the pull route the reviews GET is issued, together with the
\* comments GET, and the threaded renderer is used, exactly when
\* include_reviews or show_threading is requested; otherwise only the comments
\* GET is issued and the flat renderer is used.
C16_ReviewsFetchedIffFlag ==
  Route(req) = "pull"
    => /\ (\E i \in 1..Len(calls) : calls[i] = "reviews") <=> (calls # <<>> /\ FlagRequested)
       /\ FlagRequested => calls \in {<<>>, <<"reviews", "pullComments">>}
       /\ ~FlagRequested => /\ calls \in {<<>>, <<"pullComments">>}
                            /\ net["reviews"] = "idle"
       /\ (pc # "received" /\ ValidatePR(req).status = 0) => calls # <<>>
       /\ (Answered /\ TheResponse.status = 200)
            => /\ TheResponse.doc.reviewsLine = FlagRequested
               /\ TheResponse.doc
                    = IF FlagRequested
                        THEN FormatCommentsWithReviews(reviews, Filtered, TheOptions)
                        ELSE FormatCommentsAsMarkdown(Filtered)

\* show_threading requested while include_reviews is given as false.
C16_Witness ==
  /\ Route(req) = "pull" /\ Answered /\ TheResponse.status = 200
  /\ req.query.include_reviews = "false" /\ req.query.show_threading = "true"
  /\ calls = <<"reviews", "pullComments">>
  /\ TheResponse.doc.reviewsLine

\* C17: on the issue route a request with a comment ordinal never issues the
\* issue GET and its output has no "Issue Description" section; a request
\* without ordinal issues the issue GET after the comments GET and its output
\* has that section, with the fetched issue, before every comment.
C17_IssueFetchedOnlyWithoutOrdinal ==
  Route(req) = "issues"
    => /\ HasCommentNum(req)
            => /\ \A i \in 1..Len(calls) : calls[i] # "issue"
               /\ net["issue"] = "idle"
               /\ (Answered /\ TheResponse.status = 200)
                    => \A p \in 1..Len(TheResponse.doc.items) :
                         TheResponse.doc.items[p].kind # "issue"
       /\ (~HasCommentNum(req) /\ Answered /\ TheResponse.status = 200)
            => /\ calls = <<"issueComments", "issue">>
               /\ net["issue"] = "ok"
               /\ issue = upstream.issue
               /\ TheResponse.doc.items[1]
                    = Item("issue", upstream.issue.number, 0, 0, upstream.issue.body)
               /\ \A p \in 2..Len(TheResponse.doc.items) :
                    TheResponse.doc.items[p].kind \in {"hr", "comment"}
               /\ Len(CommentItems(TheResponse.doc)) = Len(comments)

\* The second of three comments is asked for: one GET, one comment section.
C17_Witness ==
  /\ Route(req) = "issues" /\ Answered /\ TheResponse.status = 200
  /\ HasCommentNum(req) /\ CommentNum(req) = 2 /\ Len(comments) = 3
  /\ calls = <<"issueComments">>
  /\ Len(TheResponse.doc.items) = 1

\* The request with the resolved query parameter changed to v.
WithResolved(v) ==
  Request([route |-> req.route, query |-> [req.query EXCEPT !.resolved = v]],
          req.owner, req.repo, req.id, req.commentNumber, req.token)

\* The GETs handlePRComments has issued for request r once it has started.
PRCalls(r) ==
  IF ValidatePR(r).status # 0 THEN <<>>
  ELSE IF FetchesReviews(r) THEN <<"reviews", "pullComments">>
  ELSE <<"pullComments">>

\* The response handlePRComments gives request r on the upstream answers of
\* this run.
PRResponse(r) ==
  IF ValidatePR(r).status # 0 THEN ValidatePR(r)
  ELSE IF FetchesReviews(r)
    THEN IF \E i \in 1..Len(settled) : net[settled[i]] = "failed"
           THEN LET first == CHOOSE i \in 1..Len(settled) :
                               /\ net[settled[i]] = "failed"
                               /\ \A j \in 1..(i - 1) : net[settled[j]] # "failed"
                IN  Failed(settled[first], netError[settled[first]])
         ELSE PRThreadedContinue(r, reviews, comments)
  ELSE IF net["pullComments"] = "failed" THEN Failed("pullComments", netError["pullComments"])
  ELSE PRFlatContinue(r, comments)

\* C18: the resolved query parameter has no effect: on the upstream answers
\* of this run, the request with resolved absent, "true" or "false" issues
\* the same GETs and gets the same response.
C18_ResolvedHasNoEffect ==
  Route(req) = "pull"
    => \A v \in QueryValues :
         /\ pc # "received" => calls = PRCalls(WithResolved(v))
         /\ pc = "done" => responses = <<PRResponse(WithResolved(v))>>
         /\ pc \notin {"received", "done"}
              => /\ ValidatePR(WithResolved(v)).status = 0
                 /\ (pc = "awaitBoth") = FetchesReviews(WithResolved(v))

\* A threaded view rendered for a request that says resolved=true.
C18_Witness ==
  /\ ThreadedView /\ req.query.resolved = "true"
  /\ Len(CommentItems(TheResponse.doc)) > 0
  /\ \E i \in 1..Len(comments) : comments[i].pull_request_review_id = Null

\* The bodies a renderer is given: of the reviews or the issue, where there
\* is one, and of every comment.
BodiesGiven ==
  LET of(list) == [n \in 1..Len(list) |-> list[n].body]
      present(list) == SelectSeq(of(list), LAMBDA b : b # "")
  IN  (IF Route(req) = "issues"
         THEN (IF HasCommentNum(req) THEN <<>> ELSE present(<<issue>>))
       ELSE IF ThreadedRoute THEN present(reviews) ELSE <<>>)
      \o of(Filtered)

\* The sum over texts of the encoder's count, a text it throws on counting 0.
RECURSIVE TokenSum(_)
TokenSum(texts) ==
  IF texts = <<>> THEN 0
  ELSE (IF Head(texts) \in encoderThrows THEN 0 ELSE Encode(Head(texts)))
       + TokenSum(Tail(texts))

\* C19: the "Total Tokens" header is the sum of the token counts of the
\* bodies the renderer is given (flat: the comments; threaded: the reviews
\* that have a body, and the comments; issue: the issue if it has a body, and
\* the comments), a body on which the encoder throws counting 0; the encoder
\* throwing never keeps the document from being rendered.
C19_TotalTokensIsSum ==
  /\ (Answered /\ TheResponse.status = 200)
       => TheResponse.doc.totalTokens = TokenSum(BodiesGiven)
  /\ (pc = "done" /\ PassesValidation /\ req.token # <<>> /\ NoFetchFailed
        /\ (HasCommentNum(req) => CommentNum(req) \in 1..Len(comments))
        /\ DistinctIds(Filtered))
       => TheResponse.status = 200

\* The encoder throws on the bodies of the first comment and of a review and
\* counts the other comment.
C19_Witness ==
  /\ ThreadedView /\ encoderThrows = {"A", "R"}
  /\ \E r \in 1..Len(reviews) : reviews[r].body = "R"
  /\ Len(Filtered) = 2 /\ Filtered[1].body = "A" /\ Filtered[2].body = "B"
  /\ TheResponse.doc.totalTokens = Encode("B")

\* C20: the flat pull-request renderer and the issue renderer, given N
\* comments, produce the sections "Comment 1" .. "Comment N" in input order
\* and the header "Total Comments: N"; the label is the position in the list
\* given to the renderer, so one comment selected by ordinal k is "Comment 1".
C20_FlatLabelsOneToN ==
  (Answered /\ TheResponse.status = 200 /\ FlatRoute)
    => LET its == CommentItems(TheResponse.doc)
       IN  /\ Len(its) = Len(Filtered)
           /\ TheResponse.doc.totalComments = Len(Filtered)
           /\ \A n \in 1..Len(its) :
                /\ its[n].kind = "comment" /\ its[n].label = n
                /\ Renders(its[n], Filtered[n])
           /\ HasCommentNum(req)
                => /\ Len(its) = 1 /\ its[1].label = 1
                   /\ Renders(its[1], comments[CommentNum(req)])

\* The second of three issue comments, asked for by ordinal, is "Comment 1".
C20_Witness ==
  /\ Route(req) = "issues" /\ Answered /\ TheResponse.status = 200
  /\ HasCommentNum(req) /\ CommentNum(req) = 2 /\ Len(comments) = 3
  /\ comments[2].id # 1
  /\ CommentItems(TheResponse.doc)[1].label = 1
  /\ CommentItems(TheResponse.doc)[1].id = comments[2].id

\* C21: whenever the comments given to a renderer are empty (and, for the
\* issue renderer, there is no issue), the document has the "no comments
\* found" sentinel and no section, in the flat, the threaded and the issue
\* renderer, whatever the reviews and the options.
C21_EmptyGivesSentinel ==
  /\ (Answered /\ TheResponse.status = 200 /\ Len(Filtered) = 0
        /\ (Route(req) = "issues" => ~issue.present))
       => TheResponse.doc.items = <<Sentinel>>
  /\ FormatIssueAsMarkdown(NoIssue, <<>>).items = <<Sentinel>>
  /\ FormatCommentsAsMarkdown(<<>>).items = <<Sentinel>>

\* How many times x occurs in a sequence.
Count(seq, x) == Cardinality({i \in 1..Len(seq) : seq[i] = x})

\* The first GET of this request that was answered with a failure.
FirstFailed ==
  settled[CHOOSE i \in 1..Len(settled) :
            /\ netError[settled[i]] # 0
            /\ \A j \in 1..(i - 1) : netError[settled[j]] = 0]

\* C22: upstream failures are never retried. Within a request each endpoint
\* is requested at most once and answered at most once; an answered GET is
\* never pending again; the first failure status is, in the very step in
\* which it arrives, the failure response of the request, carrying that
\* status; and after a failure no further GET is issued.
C22_NoRetry ==
  /\ [](\A e \in Endpoints :
          /\ Count(calls, e) <= 1
          /\ Count(settled, e) <= 1
          /\ net[e] = "failed" <=> netError[e] # 0)
  /\ []((\E e \in Endpoints : net[e] = "failed")
          => /\ Answered
             /\ TheResponse = Failed(FirstFailed, netError[FirstFailed])
             /\ netError[FirstFailed] \in FailStatuses)
  /\ [][ /\ \A e \in Endpoints : net[e] \in {"ok", "failed"} => net'[e] = net[e]
         /\ (\E e \in Endpoints : net[e] = "failed") => calls' = calls ]_vars

\* The reviews GET failed with 503, the comments GET was answered after that,
\* and still only the two GETs were ever issued.
C22_Witness ==
  /\ calls = <<"reviews", "pullComments">>
  /\ settled = <<"reviews", "pullComments">>
  /\ net["reviews"] = "failed" /\ net["pullComments"] = "ok"
  /\ TheResponse = Failed("reviews", 503)

\* C23: threaded rendering ends on every finite list of comments, malformed
\* ones included (a comment replying to itself, a cycle of replies, repeated
\* ids): the traversal never goes deeper than the number of comments, so a
\* fetched list in which the ordinal, if any, is in range is always rendered.
C23_TraversalDepthCapped ==
  (pc = "done" /\ Route(req) = "pull" /\ req.showThreading
     /\ net["reviews"] = "ok" /\ net["pullComments"] = "ok"
     /\ (HasCommentNum(req) => CommentNum(req) \in 1..Len(comments)))
    => /\ TheResponse.status = 200
       /\ \A p \in 1..Len(TheResponse.doc.items) :
            IsCommentItem(TheResponse.doc.items[p])
              => TheResponse.doc.items[p].depth < Len(Filtered)

\* C25: in the threaded views a comment at depth 0 is headed "Comment {id}"
\* with its identifier, not its place in the list; a comment at depth d > 0
\* has the reply marker and no heading, and is indented by d levels, one more
\* than the comment it replies to.
C25_HeadingByIdIndentByDepth ==
  ThreadedView
    => LET items == TheResponse.doc.items
       IN  \A p \in 1..Len(items) : IsCommentItem(items[p]) =>
             IF items[p].depth = 0
               THEN /\ items[p].kind = "comment"
                    /\ items[p].label = items[p].id
                    /\ \E i \in 1..Len(Filtered) :
                         /\ NoNumber(Filtered[i].in_reply_to_id)
                         /\ Renders(items[p], Filtered[i])
               ELSE /\ items[p].kind = "reply"
                    /\ items[p].label = 0
                    /\ ParentPos(items, p) # 0
                    /\ items[p].depth = items[ParentPos(items, p)].depth + 1
                    /\ \E i \in 1..Len(Filtered) :
                         /\ Filtered[i].in_reply_to_id = Num(items[ParentPos(items, p)].id)
                         /\ Renders(items[p], Filtered[i])
                    /\ \A q \in (ParentPos(items, p) + 1)..(p - 1) :
                         IsCommentItem(items[q]) /\ items[q].depth >= items[p].depth

\* A root with id 3 in second place, and a reply to a reply, two levels deep.
C25_Witness ==
  /\ ThreadedView
  /\ \E p \in 1..Len(TheResponse.doc.items) :
       /\ TheResponse.doc.items[p].kind = "reply" /\ TheResponse.doc.items[p].depth = 2
  /\ \E i \in 1..Len(Filtered) :
       /\ NoNumber(Filtered[i].in_reply_to_id) /\ Filtered[i].id # i

\* C26: every request sends exactly one response, never none and never two,
\* on every path (validation error, missing token, out of range, upstream
\* failure, success), and it does so in the end provided every GET it has
\* issued is answered.
C26_ExactlyOneResponse ==
  /\ [](Len(responses) <= 1)
  /\ []((pc = "done") <=> (Len(responses) = 1))
  /\ [][responses # <<>> => responses' = responses]_vars
  /\ <>[](Len(responses) = 1)

\* The reviews GET failed and was answered with the failure response; the
\* comments GET was answered later and no second response went out.
C26_Witness ==
  /\ settled = <<"reviews", "pullComments">>
  /\ net["reviews"] = "failed" /\ net["pullComments"] = "ok"
  /\ Len(responses) = 1 /\ TheResponse.status = 500

\* C27: in the threaded views every comment given to the renderer is rendered
\* exactly once, as a root or as a reply, so the number of comment sections is
\* the "Total Comments" of the header, for every input, replies whose parent
\* is absent and roots of a review that is not in the list included. Stated
\* for comments with distinct ids.
C27_EveryCommentRenderedOnce ==
  (ThreadedView /\ DistinctIds(Filtered))
    => LET items == TheResponse.doc.items
       IN  /\ Len(CommentItems(TheResponse.doc)) = TheResponse.doc.totalComments
           /\ \A i \in 1..Len(Filtered) :
                Cardinality({p \in 1..Len(items) :
                               IsCommentItem(items[p]) /\ Renders(items[p], Filtered[i])}) = 1

Outstanding == {e \in Endpoints : net[e] = "pending"}

\* C28 as claimed: when a response has been sent no GET of the request is
\* outstanding, not even when one of the two concurrent GETs has failed.
C28_NoFetchOutstandingAtResponse ==
  responses # <<>> => Outstanding = {}

\* C28 amended: no GET is outstanding when a response other than the failure
\* response is sent. When the first answered of the two concurrent GETs is a
\* failure, the failure response is sent at once, while the other GET is still
\* outstanding; that is the only way a GET outlives the response.
C28_OutstandingOnlyAfterFirstFailure ==
  /\ (responses # <<>> /\ TheResponse.kind # "failed") => Outstanding = {}
  /\ (responses # <<>> /\ Outstanding # {})
       => /\ ThreadedRoute
          /\ Len(settled) = 1 /\ net[settled[1]] = "failed"
          /\ TheResponse = Failed(settled[1], netError[settled[1]])
          /\ Outstanding = {"reviews", "pullComments"} \ {settled[1]}
  /\ (ThreadedRoute /\ Len(settled) = 1 /\ net[settled[1]] = "failed")
       => /\ Answered
          /\ Outstanding = {"reviews", "pullComments"} \ {settled[1]}

\* The comments GET has failed and the failure response is out; the reviews
\* GET has not been answered yet.
C28_Witness ==
  /\ Answered /\ TheResponse = Failed("pullComments", 404)
  /\ net["reviews"] = "pending"

\* The error conditions of a request, in the order of the handlers' checks,
\* each with the status of its response; "ok" when none holds.
FirstFailingCheck ==
  IF req.owner = <<>> \/ req.repo = <<>> \/ req.id = <<>> THEN <<"missingParams", 400>>
  ELSE IF ParseInt(req.id).nan THEN <<"invalidId", 400>>
  ELSE IF req.commentNumber # <<>> /\ ParseInt(req.commentNumber).nan
    THEN <<"invalidCommentNumber", 400>>
  ELSE IF req.token = <<>> THEN <<"missingToken", 401>>
  ELSE IF ~NoFetchFailed THEN <<"failed", 500>>
  ELSE IF HasCommentNum(req)
          /\ (CommentNum(req) < 1 \/ CommentNum(req) > Len(FetchList(upstream.comments)))
    THEN <<"outOfRange", 404>>
  ELSE <<"ok", 200>>

\* The response is that of the first failing check; when no check fails the
\* request is rendered, and a renderer that throws is answered 500.
AnsweredInOrder ==
  \/ <<TheResponse.kind, TheResponse.status>> = FirstFailingCheck
  \/ FirstFailingCheck = <<"ok", 200>> /\ TheResponse = Failed("render", 0)

\* C29 as claimed: when several error conditions hold at once, a request to
\* the pull or issues paths is answered with the first failing check in the
\* order: missing path parameter, id that is not a number, ordinal that is
\* not a number (400), missing token (401), upstream failure (500), ordinal
\* out of range (404).
C29_FirstFailingCheckAsClaimed ==
  (pc = "done" /\ req.route \in {"pull", "issues"}) => AnsweredInOrder

\* C29 amended: a pull or issues path with an empty owner, repo or id matches
\* no route and is answered 404 by the fallback handler, whatever else is
\* wrong with the request; a request that reaches handlePRComments or
\* handleIssueComments is answered with the first failing check in the order:
\* id that is not a number, ordinal that is not a number (400), missing token
\* (401), upstream failure (500), ordinal out of range (404). So out of range
\* is reported only after the fetches have succeeded, and a bad id masks a
\* missing token. "Not a number" is the handlers' own test on the parsed
\* value. When no check fails the request is rendered; a renderer that
\* throws is answered 500.
C29_FirstFailingCheckWins ==
  (pc = "done" /\ req.route \in {"pull", "issues"})
    => IF req.owner = <<>> \/ req.repo = <<>> \/ req.id = <<>>
         THEN TheResponse = RouteNotFound /\ Len(responses) = 1 /\ calls = <<>>
       ELSE /\ Len(responses) = 1
            /\ AnsweredInOrder
            /\ TheResponse.kind = "outOfRange"
                 => /\ net[CommentsEndpoint] = "ok"
                    /\ ThreadedRoute => net["reviews"] = "ok"
            /\ TheResponse.kind \in {"invalidId", "invalidCommentNumber", "missingToken"}
                 => calls = <<>>

\* No token and an id that is not a number: the answer is about the id.
C29_Witness ==
  /\ Route(req) = "pull" /\ Answered
  /\ req.token = <<>> /\ req.id = <<"a">> /\ req.owner # <<>> /\ req.repo # <<>>
  /\ TheResponse.kind = "invalidId" /\ TheResponse.status = 400

\* C30: on the issues route the issue GET is issued only after the comments
\* GET has succeeded, so the two are never in flight together; when the
\* comments GET fails or the ordinal is out of range no issue GET is issued;
\* and when the issue GET fails the request is answered with the failure
\* response although the comments had been fetched.
C30_IssueAfterComments ==
  Route(req) = "issues" =>
    /\ net["issue"] # "idle"
         => /\ net["issueComments"] = "ok"
            /\ calls = <<"issueComments", "issue">>
            /\ settled[1] = "issueComments"
            /\ ~HasCommentNum(req)
    /\ ~(net["issueComments"] = "pending" /\ net["issue"] = "pending")
    /\ (net["issueComments"] = "failed"
        \/ (responses # <<>> /\ TheResponse.kind = "outOfRange"))
         => /\ net["issue"] = "idle"
            /\ calls = <<"issueComments">>
    /\ net["issue"] = "failed"
         => /\ Answered
            /\ TheResponse = Failed("issue", netError["issue"])
            /\ TheResponse.status = 500
            /\ comments = FetchList(upstream.comments)

\* The comments were fetched, then the issue GET failed: a failure response.
C30_Witness ==
  /\ Route(req) = "issues" /\ Answered
  /\ calls = <<"issueComments", "issue">>
  /\ net["issueComments"] = "ok" /\ comments # <<>>
  /\ net["issue"] = "failed"
  /\ TheResponse.kind = "failed"

\* The GETs of invocation s that were answered with a failure, in the order
\* of the answers.
FailedOf(s) == SelectSeq(s.settled, LAMBDA e : s.net[e] = "failed")

\* The response request s.req gets when it runs alone against the upstream
\* answers that invocation s received.
Alone(s) ==
  LET r == s.req
      valid == IF r.route = "pull" THEN ValidatePR(r) ELSE ValidateIssue(r)
      revs == FetchList(s.upstream.reviews)
      cs == FetchList(s.upstream.comments)
  IN  IF valid.status # 0 THEN valid
      ELSE IF FailedOf(s) # <<>>
        THEN Failed(FailedOf(s)[1], s.netError[FailedOf(s)[1]])
      ELSE IF r.route = "pull"
        THEN IF FetchesReviews(r) THEN PRThreadedContinue(r, revs, cs)
             ELSE PRFlatContinue(r, cs)
      ELSE IF HasCommentNum(r) THEN IssueCommentContinue(r, cs)
      ELSE IssueContinue(r, s.upstream.issue, cs)

\* What a request has fetched is what the upstream answered to it.
FetchedOwn(s) ==
  /\ s.reviews = (IF s.net["reviews"] = "ok" THEN FetchList(s.upstream.reviews) ELSE <<>>)
  /\ s.comments = (IF s.net["pullComments"] = "ok" \/ s.net["issueComments"] = "ok"
                     THEN FetchList(s.upstream.comments) ELSE <<>>)
  /\ s.issue = (IF s.net["issue"] = "ok" THEN s.upstream.issue ELSE NoIssue)

\* C24: requests share no mutable state. However the steps of two requests in
\* progress interleave, each gets exactly the response it would get alone on
\* the same upstream answers, what each has fetched is what the upstream
\* answered to it, and a step of one request changes nothing of the other.
C24_RequestsIsolated ==
  /\ [](\A i \in DOMAIN sessions :
          /\ sessions[i].pc = "done" => sessions[i].responses = <<Alone(sessions[i])>>
          /\ sessions[i].pc # "done" => sessions[i].responses = <<>>
          /\ FetchedOwn(sessions[i]))
  /\ [][\A i \in DOMAIN sessions :
          sessions'[i] # sessions[i]
            => \A j \in DOMAIN sessions \ {i} : sessions'[j] = sessions[j]]_vars

\* Two requests for the same pull request were answered while both were in
\* progress, each with a different document.
C24_Witness ==
  /\ DOMAIN sessions = SessionIds
  /\ \A i \in SessionIds :
       /\ sessions[i].pc = "done"
       /\ sessions[i].responses[1].kind = "ok"
       /\ Route(sessions[i].req) = "pull"
  /\ sessions[1].req = sessions[2].req
  /\ sessions[1].upstream # sessions[2].upstream
  /\ sessions[1].responses # sessions[2].responses
  /\ sessions[1].settled # <<>> /\ sessions[2].settled # <<>>

====
